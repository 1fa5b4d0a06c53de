------------------------ MODULE FiberSemaphoreProofs ------------------------
(***************************************************************************)
(* Proofs about FiberSemaphore on the threads of FiberSwitch, for any      *)
(* workers, tasks and scenarios.                                           *)
(*                                                                         *)
(* OwnStack rests on what run() knows (Placed): a thread that executes a   *)
(* task holds the mutex of its fiber, so that the fiber is on no other     *)
(* thread, and what resume() saves is always the fiber the thread is on.   *)
(* That resume() finds its fiber READY (AbortsOnlyLate) needs more: an     *)
(* idle fiber ends only when the pool has nothing left to do, and then     *)
(* nobody but main() can give it more (Ended).                             *)
(*                                                                         *)
(* UnitsKept counts a unit on its way to a waiter once because a fiber has *)
(* at most one ticket: it is in the queue, taken by a thread, or on the    *)
(* list of waiters, and in one place of it only (Tickets).                 *)
(*                                                                         *)
(* GuardsExclude speaks of fibers and RWMutex of threads: a fiber that     *)
(* holds a guard stays on its thread, because it neither waits nor returns *)
(* with one, the scenarios being scoped (Guarded).                         *)
(***************************************************************************)
EXTENDS FiberSemaphore, FiniteSetTheorems, SequenceTheorems, TLAPS

Names == {"none", "new", "signal", "enter", "take", "task", "done", "left",
          "start", "started", "user", "join", "stopped", "end"}
Spots == {main(t) : t \in Threads} \cup {Sched}
Where(t) == at[RunStack(t)]
Begun(t) == Where(t) \in {"take", "task", "done"}
Busy == {t \in Threads : Where(t) \in {"task", "done"}}

-----------------------------------------------------------------------------
(* The types.                                                              *)
SwitchTypes ==
  /\ exec \in [Threads -> Fibers \cup {None}]
  /\ tFiber \in [Threads -> Fibers \cup {None}]
  /\ tThread \in [Threads -> Fibers \cup {None}]
  /\ tSched \in [Threads -> Fibers \cup {None}]
  /\ ctx = [f \in Fibers |-> f]
  /\ state \in [Fibers -> {"READY", "RUNNING", "TERM"}]
  /\ mutex \in [Tasks -> Threads \cup {None}]
  /\ at \in [Spots -> Names]
  /\ task \in [Threads -> Tasks \cup {None}]
  /\ queue \in Seq(Tasks) /\ active \in Nat
  /\ stopFlag \in BOOLEAN /\ aborted \in BOOLEAN
  /\ tid \in [Workers -> Workers \cup {None}] /\ sem \in [Workers -> 0..1]
  /\ threadIds \in Seq(Threads)

SemaTypes ==
  /\ pc \in [Tasks -> Nat] /\ phase \in [Tasks -> {"go", "parked", "away"}]
  /\ concurrency \in 0..SizeMax /\ seen \in 0..SizeMax
  /\ waiters \in Seq(Tasks) /\ spin \in Threads \cup {None}
  /\ given \in Nat /\ got \in Nat /\ lost \in Nat
  /\ raced \in BOOLEAN /\ late \in BOOLEAN /\ misused \in BOOLEAN

(* Where a thread is, and what its thread-local pointers say.              *)
Place(t) ==
  /\ exec[t] # None => tFiber[t] = exec[t]
  /\ Begun(t) => tSched[t] = RunStack(t)
  /\ Where(t) = "take" => exec[t] \in {RunStack(t), idle(t)}
  /\ Where(t) = "task" => exec[t] = RunStack(t)
  /\ Where(t) = "done" => exec[t] \in {RunStack(t), task[t]}
  /\ IF Where(t) \in {"task", "done"} THEN task[t] \in Tasks ELSE task[t] = None
  /\ state[idle(t)] = "RUNNING" <=> exec[t] = idle(t)
  /\ Where(t) = "left" => state[idle(t)] = "TERM"
  /\ t # Root => /\ Where(t) \in {"none", "new", "signal", "enter", "take", "task",
                                  "done", "left"}
                 /\ ~Begun(t) => exec[t] = None

(* Root is on its main fiber until stop() and after the scheduler fiber    *)
(* has ended.                                                              *)
RootPlace ==
  /\ tThread[Root] = main(Root) /\ tSched[Root] = Sched
  /\ at[main(Root)] \in {"start", "started", "user", "join", "stopped", "end"}
  /\ at[Sched] \in {"enter", "take", "task", "done", "left"}
  /\ at[main(Root)] \in {"start", "started", "user"} =>
       /\ at[Sched] = "enter" /\ state[Sched] = "READY" /\ exec[Root] = main(Root)
       /\ ~stopFlag
  /\ at[main(Root)] \in {"stopped", "end"} => at[Sched] = "left"
  /\ at[main(Root)] = "join" /\ at[Sched] = "enter" => exec[Root] = Sched
  /\ at[Sched] = "left" => exec[Root] = main(Root) /\ state[Sched] = "TERM"

(* The thread that executes a fiber holds its mutex.                       *)
Mutexes ==
  \A f \in Tasks :
    /\ \A t \in Threads : mutex[f] = t <=> Where(t) = "done" /\ task[t] = f
    /\ state[f] = "RUNNING" <=> mutex[f] # None /\ exec[mutex[f]] = f

Placed == (\A t \in Threads : Place(t)) /\ RootPlace /\ Mutexes

(* start() creates the workers in their order, and waits for each.         *)
HasId(w) == at[main(w)] \notin {"none", "new"}
InOrder ==
  LET order == SetToSeq(Workers)
  IN  /\ Len(threadIds) >= 1
      /\ at[main(Root)] \in {"start", "started"} => Len(threadIds) <= Cardinality(Workers)
      /\ \A i \in 1..Cardinality(Workers) :
           \/ at[main(Root)] = "start" /\ i >= Len(threadIds)
           \/ at[main(Root)] = "started" /\ i > Len(threadIds)
           => at[main(order[i])] = "none"
      /\ \A w \in Workers : IF HasId(w) THEN tid[w] = w ELSE sem[w] = 0
      /\ \A w \in Workers : at[main(w)] = "signal" => sem[w] = 0

Counted == active = Cardinality(Busy)

(* An idle fiber ends when nothing is left to do.                          *)
Ended ==
  /\ (\E t \in Threads : state[idle(t)] = "TERM") => stopping \/ late
  /\ aborted => late

SwitchInv == SwitchTypes /\ Placed /\ InOrder /\ Counted /\ Ended

-----------------------------------------------------------------------------
(* The tickets of a fiber: it will be resumed once for each.               *)
Taken(t) == Where(t) = "task"
Queued(f) == Contains(queue, f)
Waits(f) == Contains(waiters, f)

Tickets ==
  /\ IsInjective(queue) /\ IsInjective(waiters)
  /\ \A f \in Tasks : ~(Queued(f) /\ Waits(f))
  /\ \A t \in Threads : Taken(t) => ~Queued(task[t]) /\ ~Waits(task[t])
  /\ \A s, t \in Threads : Taken(s) /\ Taken(t) /\ task[s] = task[t] => s = t
  /\ \A t \in Threads, f \in Tasks :
       exec[t] = f /\ phase[f] # "parked" =>
         /\ ~Queued(f) /\ ~Waits(f)
         /\ \A s \in Threads : Taken(s) => task[s] # f
  /\ \A f \in Tasks : Waits(f) => phase[f] # "go"

(* Where a task is in its calls.                                           *)
InCalls ==
  /\ prog \in Scenarios
  /\ \A f \in Tasks :
       /\ pc[f] \in 1..(Len(prog[f]) + 1)
       /\ phase[f] # "go" => Op(f) = "wait"

SemaInv == SemaTypes /\ Tickets /\ InCalls /\ UnitsKept

-----------------------------------------------------------------------------
(* The guards.                                                             *)
Guards == Seq([kind : Constructors, locked : BOOLEAN])

LockTypes ==
  /\ excl \in BOOLEAN
  /\ rw \in [writer : Threads \cup {None}, readers : Nat]
  /\ guards \in [Tasks -> Guards]

Nested(f) ==
  \E depth \in [0..Len(prog[f]) -> Nat] :
    Scoped(prog[f], depth) /\ Len(guards[f]) = depth[pc[f] - 1]

Holds(f, kind) == guards[f] # <<>> /\ guards[f][1].kind = kind /\ guards[f][1].locked
Holders(kind) == {f \in Tasks : Holds(f, kind)}

(* A task has one guard, and is on its thread while that is locked.        *)
Guarded ==
  /\ \A f \in Tasks : /\ Len(guards[f]) <= 1
                      /\ guards[f] # <<>> /\ guards[f][1].locked => state[f] = "RUNNING"
  /\ \A f, g \in Holders("Lock") : f = g
  /\ excl <=> Holders("Lock") # {}
  /\ Cardinality(Holders("ReadLock")) = rw.readers
  /\ IF rw.writer = None THEN Holders("WriteLock") = {}
     ELSE rw.readers = 0 /\ Holders("WriteLock") = {exec[rw.writer]}

LockInv == LockTypes /\ (\A f \in Tasks : Nested(f)) /\ (misused \/ Guarded)

IndInv == SwitchInv /\ SemaInv /\ LockInv

-----------------------------------------------------------------------------
(* The fibers of the threads are different from each other and from the    *)
(* tasks'.                                                                 *)
LEMMA Stacks ==
  /\ Root \in Threads /\ RunStack(Root) = Sched /\ main(Root) \in Spots
  /\ Sched \in Spots /\ Sched \in Fibers /\ Sched \notin Tasks /\ None \notin Threads
  /\ \A w \in Workers : w \in Threads /\ w # Root /\ RunStack(w) = main(w)
  /\ \A t \in Threads : t # Root => t \in Workers
  /\ \A f \in Tasks : f \in Fibers /\ f # None
  /\ \A t \in Threads :
       /\ main(t) \in Spots /\ main(t) \in Fibers /\ main(t) \notin Tasks
       /\ idle(t) \in Fibers /\ idle(t) \notin Tasks
       /\ RunStack(t) \in Spots /\ RunStack(t) \in Fibers /\ RunStack(t) \notin Tasks
       /\ main(t) # None /\ idle(t) # None /\ RunStack(t) # None
       /\ RunStack(t) # main(Root) /\ main(t) # Sched /\ idle(t) # Sched
       /\ \A s \in Threads : /\ main(s) = main(t) => s = t
                             /\ idle(s) = idle(t) => s = t
                             /\ RunStack(s) = RunStack(t) => s = t
                             /\ RunStack(s) # idle(t) /\ main(s) # idle(t)
<1>1. \A s, t \in Threads : /\ main(s) = main(t) => s = t
                            /\ idle(s) = idle(t) => s = t
                            /\ main(s) # idle(t) /\ main(s) # Sched /\ idle(s) # Sched
  BY DEF main, idle, Sched
<1>2. \A t \in Threads : main(t) \in Fibers /\ idle(t) \in Fibers /\ main(t) \in Spots
  BY DEF Fibers, Spots
<1>3. Sched \in Fibers /\ Sched \in Spots /\ \A f \in Tasks : f \in Fibers
  BY DEF Fibers, Spots
<1>4. /\ Root \in Threads /\ \A w \in Workers : w \in Threads /\ w # Root
      /\ \A t \in Threads : t # Root => t \in Workers
  BY SwitchAssumption DEF Threads
<1>5. /\ None \notin Threads /\ \A f \in Fibers : f # None
      /\ \A t \in Threads : main(t) \notin Tasks /\ idle(t) \notin Tasks /\ Sched \notin Tasks
  BY SwitchAssumption, Zenon
<1>6. /\ RunStack(Root) = Sched /\ \A w \in Workers : RunStack(w) = main(w)
      /\ \A t \in Threads : RunStack(t) = IF t = Root THEN Sched ELSE main(t)
  BY <1>4 DEF RunStack
<1> QED
  BY <1>1, <1>2, <1>3, <1>4, <1>5, <1>6

(* SetToSeq puts the elements of a finite set into some order.             *)
LEMMA SetToSeqIsOrder ==
  ASSUME NEW S, IsFiniteSet(S)
  PROVE  /\ Cardinality(S) \in Nat
         /\ SetToSeq(S) \in [1..Cardinality(S) -> S]
         /\ IsInjective(SetToSeq(S))
<1>1. Cardinality(S) \in Nat /\ ExistsBijection(1..Cardinality(S), S)
  BY FS_CardinalityType
<1>2. PICK f \in [1..Cardinality(S) -> S] : IsInjective(f)
  BY <1>1 DEF ExistsBijection, Bijection, Injection, IsInjective
<1> QED
  BY <1>1, <1>2 DEF SetToSeq

-----------------------------------------------------------------------------
(* What switching does when ctx is as it should be: the thread is on the   *)
(* other fiber, and no context has changed.                                *)
Moves(t, f) ==
  /\ exec' = [exec EXCEPT ![t] = f] /\ tFiber' = [tFiber EXCEPT ![t] = f]
  /\ UNCHANGED <<ctx, tThread, tSched>>

LEMMA ResumeMoves ==
  ASSUME SwitchTypes, NEW t \in Threads, NEW f \in Fibers, state[f] = "READY",
         exec[t] \in Fibers,
         exec[t] = IF f = Sched THEN tThread[t] ELSE tSched[t],
         resume(t, f)
  PROVE  Moves(t, f) /\ state' = [state EXCEPT ![f] = "RUNNING"] /\ aborted' = aborted
<1>1. /\ state' = [state EXCEPT ![f] = "RUNNING"] /\ tFiber' = [tFiber EXCEPT ![t] = f]
      /\ tThread' = tThread /\ tSched' = tSched /\ aborted' = aborted
      /\ ctx' = [ctx EXCEPT ![exec[t]] = exec[t]] /\ exec' = [exec EXCEPT ![t] = ctx[f]]
  BY DEF resume, swapcontext, runInScheduler
<1>2. ctx' = ctx /\ ctx[f] = f
  BY <1>1 DEF SwitchTypes
<1> QED
  BY <1>1, <1>2 DEF Moves

LEMMA YieldMoves ==
  ASSUME SwitchTypes, NEW t \in Threads, NEW f \in Fibers, exec[t] = f,
         NEW last, NEW g \in Fibers,
         g = IF f = Sched THEN tThread[t] ELSE tSched[t],
         yield(t, f, last)
  PROVE  Moves(t, g) /\ state' = [state EXCEPT ![f] = last]
<1>1. /\ state' = [state EXCEPT ![f] = last] /\ tFiber' = [tFiber EXCEPT ![t] = g]
      /\ tThread' = tThread /\ tSched' = tSched
      /\ ctx' = [ctx EXCEPT ![f] = f] /\ exec' = [exec EXCEPT ![t] = ctx[g]]
  BY DEF yield, swapcontext, runInScheduler
<1>2. ctx' = ctx /\ ctx[g] = g
  BY <1>1 DEF SwitchTypes
<1> QED
  BY <1>1, <1>2 DEF Moves

-----------------------------------------------------------------------------
(* What a step leaves alone stays true.                                    *)
LEMMA PlaceFrame ==
  ASSUME NEW s \in Threads, Place(s), exec'[s] = exec[s], tFiber'[s] = tFiber[s],
         tSched'[s] = tSched[s], Where(s)' = Where(s), task'[s] = task[s],
         state'[idle(s)] = state[idle(s)]
  PROVE  Place(s)'
BY DEF Place, Begun

LEMMA RootFrame ==
  ASSUME RootPlace, UNCHANGED <<tThread, tSched, stopFlag>>, exec'[Root] = exec[Root],
         state'[Sched] = state[Sched], at'[main(Root)] = at[main(Root)],
         at'[Sched] = at[Sched]
  PROVE  RootPlace'
BY DEF RootPlace

LEMMA MutexFrame ==
  ASSUME SwitchTypes, Mutexes, mutex' = mutex,
         \A t \in Threads : \/ Where(t)' = Where(t) /\ task'[t] = task[t]
                            \/ Where(t)' # "done" /\ Where(t) # "done",
         \A f \in Tasks : state'[f] = state[f],
         \A t \in Threads : Where(t) = "done" => exec'[t] = exec[t]
  PROVE  Mutexes'
<1> SUFFICES ASSUME NEW f \in Tasks
    PROVE  /\ \A t \in Threads : mutex'[f] = t <=> Where(t)' = "done" /\ task'[t] = f
           /\ state'[f] = "RUNNING" <=> mutex'[f] # None /\ exec'[mutex'[f]] = f
  BY DEF Mutexes
<1>1. \A t \in Threads : mutex'[f] = t <=> Where(t)' = "done" /\ task'[t] = f
  BY DEF Mutexes
<1>2. mutex[f] \in Threads => exec'[mutex[f]] = exec[mutex[f]]
  BY DEF Mutexes
<1>3. state'[f] = "RUNNING" <=> mutex'[f] # None /\ exec'[mutex'[f]] = f
  BY <1>2 DEF Mutexes, SwitchTypes
<1> QED
  BY <1>1, <1>3

StartedPlaces == {"enter", "take", "task", "done", "left"}

LEMMA OrderFrame ==
  ASSUME SwitchTypes, InOrder, UNCHANGED starters,
         at'[main(Root)] = at[main(Root)] \/ at'[main(Root)] \notin {"start", "started"},
         \A w \in Workers : \/ at'[main(w)] = at[main(w)]
                            \/ at[main(w)] \in StartedPlaces /\ at'[main(w)] \in StartedPlaces
  PROVE  InOrder'
<1> DEFINE order == SetToSeq(Workers)
<1>1. \A i \in 1..Cardinality(Workers) : order[i] \in Workers
  BY SetToSeqIsOrder, SwitchAssumption
<1>2. \A i \in 1..Cardinality(Workers) :
        at[main(order[i])] = "none" => at'[main(order[i])] = "none"
  BY <1>1 DEF StartedPlaces
<1>3. \A w \in Workers : IF HasId(w)' THEN tid'[w] = w ELSE sem'[w] = 0
  BY DEF InOrder, HasId, StartedPlaces, starters
<1>4. \A w \in Workers : at'[main(w)] = "signal" => sem'[w] = 0
  BY DEF InOrder, StartedPlaces, starters
<1> QED
  BY <1>2, <1>3, <1>4 DEF InOrder, starters

LEMMA CountFrame ==
  ASSUME Counted, active' = active,
         \A s \in Threads : Where(s)' \in {"task", "done"} <=> Where(s) \in {"task", "done"}
  PROVE  Counted'
<1>1. Busy' = Busy
  BY DEF Busy
<1> QED
  BY <1>1 DEF Counted

LEMMA EndedFrame ==
  ASSUME Ended, \A t \in Threads : state'[idle(t)] = "TERM" => state[idle(t)] = "TERM",
         stopping => stopping', late => late', aborted' = aborted
  PROVE  Ended'
BY DEF Ended

(* A thread goes on in run(); the others stay where they are.              *)
LEMMA GoesOn ==
  ASSUME SwitchTypes, NEW t \in Threads, NEW p \in Names, Goes(RunStack(t), p)
  PROVE  /\ at' \in [Spots -> Names]
         /\ Where(t)' = p /\ \A s \in Threads : s # t => Where(s)' = Where(s)
         /\ at'[main(Root)] = at[main(Root)]
         /\ at'[Sched] = IF t = Root THEN p ELSE at[Sched]
         /\ \A w \in Workers : w # t => at'[main(w)] = at[main(w)]
         /\ t \in Workers => at'[main(t)] = p
<1>1. at' = [at EXCEPT ![RunStack(t)] = p]
  BY DEF Goes
<1> QED
  BY <1>1, Stacks DEF SwitchTypes, Where

(* No thread comes to a task's stack.                                      *)
NoTaskResumed == \A t \in Threads : exec'[t] = exec[t] \/ exec'[t] \notin Tasks

-----------------------------------------------------------------------------
(* run() begins.                                                           *)
LEMMA EnterKeeps ==
  ASSUME SwitchInv, NEW t \in Threads, Enter(t), late' = late
  PROVE  SwitchInv' /\ NoTaskResumed
<1>1. /\ Where(t) = "enter" /\ UNCHANGED <<ctx, mutex, task, pool, starters, aborted>>
      /\ state' = [state EXCEPT ![RunStack(t)] = "RUNNING", ![idle(t)] = "READY"]
      /\ Goes(RunStack(t), "take")
  BY DEF Enter, Where
<1>2. /\ at' \in [Spots -> Names]
      /\ Where(t)' = "take" /\ \A s \in Threads : s # t => Where(s)' = Where(s)
      /\ at'[main(Root)] = at[main(Root)]
      /\ at'[Sched] = IF t = Root THEN "take" ELSE at[Sched]
      /\ \A w \in Workers : w # t => at'[main(w)] = at[main(w)]
      /\ t \in Workers => at'[main(t)] = "take"
  BY <1>1, GoesOn DEF SwitchInv, Names
<1>3. /\ exec' = [exec EXCEPT ![t] = RunStack(t)]
      /\ tFiber' = [tFiber EXCEPT ![t] = RunStack(t)]
      /\ tSched' = [tSched EXCEPT ![t] = RunStack(t)]
      /\ tThread' = [tThread EXCEPT ![t] = IF t = Root THEN main(Root) ELSE main(t)]
      /\ t = Root => at[main(Root)] = "join"
  <2>1. CASE t = Root
    <3>1. exec[t] = Sched /\ UNCHANGED <<exec, tFiber, tThread, tSched>>
      BY <2>1 DEF Enter
    <3>2. tFiber[t] = Sched /\ tSched[t] = Sched /\ tThread[t] = main(Root)
      BY <2>1, <3>1, Stacks DEF SwitchInv, Placed, Place, RootPlace
    <3>3. at[main(Root)] = "join"
      BY <2>1, <3>1, <1>1, Stacks DEF SwitchInv, Placed, RootPlace, Where
    <3> QED
      BY <2>1, <3>1, <3>2, <3>3, Stacks DEF SwitchInv, SwitchTypes
  <2>2. CASE t # Root
    BY <2>2, Stacks DEF Enter
  <2> QED
    BY <2>1, <2>2
<1>4. SwitchTypes'
  BY <1>1, <1>2, <1>3, Stacks DEF SwitchInv, SwitchTypes, pool, starters
<1>5. Placed'
  <2>1. ASSUME NEW s \in Threads, s # t PROVE Place(s)'
    BY <2>1, <1>1, <1>2, <1>3, PlaceFrame, Stacks DEF SwitchInv, SwitchTypes, Placed
  <2>2. Place(t)'
    BY <1>1, <1>2, <1>3, Stacks DEF SwitchInv, SwitchTypes, Placed, Place, Begun
  <2>3. RootPlace'
    BY <1>1, <1>2, <1>3, Stacks DEF SwitchInv, SwitchTypes, Placed, RootPlace, pool
  <2>4. Mutexes'
    BY <1>1, <1>2, <1>3, MutexFrame, Stacks DEF SwitchInv, SwitchTypes, Placed
  <2> QED
    BY <2>1, <2>2, <2>3, <2>4 DEF Placed
<1>6. InOrder'
  BY <1>1, <1>2, OrderFrame, Stacks DEF SwitchInv, StartedPlaces, Where
<1>7. Counted'
  BY <1>1, <1>2, CountFrame DEF SwitchInv, pool
<1>8. Ended'
  BY <1>1, EndedFrame, Stacks DEF SwitchInv, SwitchTypes, pool, stopping
<1>9. NoTaskResumed
  BY <1>3, Stacks DEF NoTaskResumed
<1> QED
  BY <1>4, <1>5, <1>6, <1>7, <1>8, <1>9 DEF SwitchInv

-----------------------------------------------------------------------------
(* start() and the workers that start.                                     *)
LEMMA CreateKeeps ==
  ASSUME SwitchInv, NEW w \in Workers, Create(w), late' = late
  PROVE  SwitchInv'
<1> DEFINE order == SetToSeq(Workers)
<1>1. /\ at[main(Root)] = "start" /\ w = order[Len(threadIds)]
      /\ at' = [at EXCEPT ![main(w)] = "new", ![main(Root)] = "started"]
      /\ UNCHANGED <<cpu, mutex, task, pool, starters, aborted>>
  BY DEF Create
<1>2. /\ Len(threadIds) \in 1..Cardinality(Workers) /\ at[main(w)] = "none"
      /\ Cardinality(Workers) \in Nat
      /\ \A i \in 1..Cardinality(Workers) :
           order[i] \in Workers /\ (order[i] = w => i = Len(threadIds))
  <2>1. Len(threadIds) \in Nat /\ Len(threadIds) >= 1
        /\ Len(threadIds) <= Cardinality(Workers)
    BY <1>1, LenProperties DEF SwitchInv, SwitchTypes, InOrder
  <2>2. /\ Cardinality(Workers) \in Nat /\ order \in [1..Cardinality(Workers) -> Workers]
        /\ IsInjective(order)
    BY SetToSeqIsOrder, SwitchAssumption
  <2>3. Len(threadIds) \in 1..Cardinality(Workers)
    BY <2>1, <2>2
  <2>4. at[main(order[Len(threadIds)])] = "none"
    BY <1>1, <2>1, <2>3 DEF SwitchInv, InOrder
  <2> QED
    BY <1>1, <2>2, <2>3, <2>4 DEF IsInjective
<1>3. /\ at' \in [Spots -> Names] /\ at'[main(Root)] = "started" /\ at'[Sched] = at[Sched]
      /\ at'[main(w)] = "new" /\ Where(w) = "none" /\ Where(w)' = "new"
      /\ \A v \in Workers : v # w => at'[main(v)] = at[main(v)]
      /\ \A s \in Threads : s # w => Where(s)' = Where(s)
  BY <1>1, <1>2, Stacks DEF SwitchInv, SwitchTypes, Where, Names
<1>4. SwitchTypes'
  BY <1>1, <1>3 DEF SwitchInv, SwitchTypes, cpu, pool, starters
<1>5. Placed'
  <2>1. ASSUME NEW s \in Threads, s # w PROVE Place(s)'
    BY <2>1, <1>1, <1>3, PlaceFrame DEF SwitchInv, Placed, cpu
  <2>2. Place(w)'
    BY <1>1, <1>3, Stacks DEF SwitchInv, Placed, Place, Begun, cpu
  <2>3. RootPlace'
    BY <1>1, <1>3 DEF SwitchInv, Placed, RootPlace, cpu, pool
  <2>4. Mutexes'
    BY <1>1, <1>3, MutexFrame DEF SwitchInv, Placed, cpu
  <2> QED
    BY <2>1, <2>2, <2>3, <2>4 DEF Placed
<1>6. InOrder'
  <2>1. ASSUME NEW i \in 1..Cardinality(Workers), i > Len(threadIds)
        PROVE  at'[main(order[i])] = "none"
    <3>1. i >= Len(threadIds) /\ order[i] \in Workers /\ order[i] # w
      BY <2>1, <1>2
    <3>2. at[main(order[i])] = "none"
      BY <3>1, <1>1 DEF SwitchInv, InOrder
    <3> QED
      BY <3>1, <3>2, <1>3
  <2>2. \A v \in Workers : IF HasId(v)' THEN tid'[v] = v ELSE sem'[v] = 0
    BY <1>1, <1>2, <1>3 DEF SwitchInv, InOrder, HasId, starters
  <2>3. \A v \in Workers : at'[main(v)] = "signal" => sem'[v] = 0
    BY <1>1, <1>3 DEF SwitchInv, InOrder, starters
  <2>4. Len(threadIds') >= 1 /\ Len(threadIds') <= Cardinality(Workers)
    BY <1>1, <1>2 DEF starters
  <2> QED
    BY <2>1, <2>2, <2>3, <2>4, <1>1, <1>3 DEF InOrder, starters
<1>7. Counted'
  BY <1>1, <1>3, CountFrame DEF SwitchInv, pool
<1>8. Ended'
  BY <1>1, EndedFrame DEF SwitchInv, pool, cpu, stopping
<1> QED
  BY <1>4, <1>5, <1>6, <1>7, <1>8 DEF SwitchInv

(* The new thread's own steps: it has an identifier before it signals.     *)
LEMMA WorkerStarts ==
  ASSUME SwitchInv, NEW w \in Workers, SetId(w) \/ Signal(w), late' = late
  PROVE  SwitchInv'
<1>1. PICK p \in {"signal", "enter"} :
        /\ Goes(main(w), p) /\ UNCHANGED <<cpu, mutex, task, pool, threadIds, aborted>>
        /\ at[main(w)] = IF p = "signal" THEN "new" ELSE "signal"
        /\ IF p = "signal" THEN tid' = [tid EXCEPT ![w] = w] /\ sem' = sem
           ELSE sem' = [sem EXCEPT ![w] = @ + 1] /\ tid' = tid
  BY DEF SetId, Signal
<1>2. w \in Threads /\ w # Root /\ RunStack(w) = main(w)
  BY Stacks
<1>3. /\ at' \in [Spots -> Names]
      /\ Where(w)' = p /\ \A s \in Threads : s # w => Where(s)' = Where(s)
      /\ at'[main(Root)] = at[main(Root)] /\ at'[Sched] = at[Sched]
      /\ \A v \in Workers : v # w => at'[main(v)] = at[main(v)]
      /\ at'[main(w)] = p
  BY <1>1, <1>2, GoesOn DEF SwitchInv, Names
<1>4. Where(w) \in {"new", "signal"} /\ p \in {"signal", "enter"}
  BY <1>1, <1>2 DEF Where
<1>5. SwitchTypes' /\ (p = "enter" => sem[w] = 0 /\ sem'[w] = 1)
  <2>1. p = "enter" => sem[w] = 0
    BY <1>1 DEF SwitchInv, InOrder
  <2>2. /\ tid' \in [Workers -> Workers \cup {None}] /\ sem' \in [Workers -> 0..1]
        /\ (p = "enter" => sem'[w] = 1)
    <3>1. CASE p = "signal"
      BY <3>1, <1>1 DEF SwitchInv, SwitchTypes
    <3>2. CASE p = "enter"
      <4>1. sem[w] = 0 /\ sem' = [sem EXCEPT ![w] = sem[w] + 1] /\ tid' = tid
        BY <3>2, <2>1, <1>1
      <4> QED
        BY <4>1, <3>2 DEF SwitchInv, SwitchTypes
    <3> QED
      BY <3>1, <3>2
  <2> QED
    BY <1>1, <1>3, <2>1, <2>2 DEF SwitchInv, SwitchTypes, cpu, pool
<1>6. Placed'
  <2>1. ASSUME NEW s \in Threads, s # w PROVE Place(s)'
    BY <2>1, <1>1, <1>3, PlaceFrame DEF SwitchInv, Placed, cpu
  <2>2. Place(w)'
    BY <1>1, <1>2, <1>3, <1>4 DEF SwitchInv, Placed, Place, Begun, cpu
  <2>3. RootPlace'
    BY <1>1, <1>3 DEF SwitchInv, Placed, RootPlace, cpu, pool
  <2>4. Mutexes'
    BY <1>1, <1>3, <1>4, MutexFrame DEF SwitchInv, Placed, cpu
  <2> QED
    BY <2>1, <2>2, <2>3, <2>4 DEF Placed
<1>7. InOrder'
  <2>1. \A i \in 1..Cardinality(Workers) : SetToSeq(Workers)[i] \in Workers
    BY SetToSeqIsOrder, SwitchAssumption
  <2>2. \A v \in Workers : at[main(v)] = "none" => at'[main(v)] = "none"
    BY <1>1, <1>3
  <2>3. \A v \in Workers : IF HasId(v)' THEN tid'[v] = v ELSE sem'[v] = 0
    BY <1>1, <1>3 DEF SwitchInv, SwitchTypes, InOrder, HasId
  <2>4. \A v \in Workers : at'[main(v)] = "signal" => sem'[v] = 0
    BY <1>1, <1>3 DEF SwitchInv, SwitchTypes, InOrder, HasId
  <2> QED
    BY <1>1, <1>3, <2>1, <2>2, <2>3, <2>4 DEF SwitchInv, InOrder
<1>8. Counted'
  BY <1>1, <1>3, <1>4, CountFrame DEF SwitchInv, pool
<1>9. Ended'
  BY <1>1, EndedFrame DEF SwitchInv, pool, cpu, stopping
<1> QED
  BY <1>5, <1>6, <1>7, <1>8, <1>9 DEF SwitchInv

LEMMA StartedKeeps ==
  ASSUME SwitchInv, NEW w \in Workers, Started(w), late' = late
  PROVE  SwitchInv'
<1>1. /\ at[main(Root)] = "started" /\ sem[w] > 0 /\ sem' = [sem EXCEPT ![w] = @ - 1]
      /\ threadIds' = Append(threadIds, tid[w])
      /\ at' = [at EXCEPT ![main(Root)] =
                  IF Len(threadIds') = Cardinality(Threads) THEN "user" ELSE "start"]
      /\ UNCHANGED <<cpu, mutex, task, pool, tid, aborted>>
  BY DEF Started, Goes
<1>2. sem[w] = 1 /\ sem'[w] = 0 /\ HasId(w) /\ tid[w] = w /\ at[main(w)] # "signal"
  BY <1>1 DEF SwitchInv, SwitchTypes, InOrder
<1>3. /\ at' \in [Spots -> Names] /\ at'[main(Root)] \in {"start", "user"}
      /\ at'[main(Root)] = "start" => Len(threadIds') # Cardinality(Threads)
      /\ at'[Sched] = at[Sched]
      /\ \A v \in Workers : at'[main(v)] = at[main(v)]
      /\ \A s \in Threads : Where(s)' = Where(s)
  BY <1>1, Stacks DEF SwitchInv, SwitchTypes, Where, Names
<1>4. /\ Len(threadIds) \in Nat /\ Len(threadIds') = Len(threadIds) + 1
      /\ threadIds' \in Seq(Threads)
      /\ Cardinality(Workers) \in Nat /\ Cardinality(Threads) = Cardinality(Workers) + 1
      /\ Len(threadIds) >= 1 /\ Len(threadIds) <= Cardinality(Workers)
  <2>1. w \in Threads /\ threadIds \in Seq(Threads)
    BY Stacks DEF SwitchInv, SwitchTypes
  <2>2. Cardinality(Workers) \in Nat /\ Cardinality(Threads) = Cardinality(Workers) + 1
    BY SwitchAssumption, FS_AddElement, FS_CardinalityType DEF Threads
  <2> QED
    BY <1>1, <1>2, <2>1, <2>2, AppendProperties, LenProperties DEF SwitchInv, InOrder
<1>5. SwitchTypes'
  <2>1. sem' \in [Workers -> 0..1]
    BY <1>1, <1>2 DEF SwitchInv, SwitchTypes
  <2> QED
    BY <1>1, <1>3, <1>4, <2>1 DEF SwitchInv, SwitchTypes, cpu, pool
<1>6. Placed'
  <2>1. ASSUME NEW s \in Threads PROVE Place(s)'
    BY <2>1, <1>1, <1>3, PlaceFrame DEF SwitchInv, Placed, cpu
  <2>2. RootPlace'
    BY <1>1, <1>3 DEF SwitchInv, Placed, RootPlace, cpu, pool
  <2>3. Mutexes'
    BY <1>1, <1>3, MutexFrame DEF SwitchInv, Placed, cpu
  <2> QED
    BY <2>1, <2>2, <2>3 DEF Placed
<1>7. InOrder'
  <2>1. ASSUME NEW i \in 1..Cardinality(Workers), i >= Len(threadIds')
        PROVE  at'[main(SetToSeq(Workers)[i])] = "none"
    <3>1. SetToSeq(Workers)[i] \in Workers
      BY SetToSeqIsOrder, SwitchAssumption
    <3> QED
      BY <2>1, <3>1, <1>1, <1>3, <1>4 DEF SwitchInv, InOrder
  <2>2. \A v \in Workers : IF HasId(v)' THEN tid'[v] = v ELSE sem'[v] = 0
    BY <1>1, <1>2, <1>3 DEF SwitchInv, SwitchTypes, InOrder, HasId
  <2>3. \A v \in Workers : at'[main(v)] = "signal" => sem'[v] = 0
    BY <1>1, <1>2, <1>3 DEF SwitchInv, SwitchTypes, InOrder
  <2>4. Len(threadIds') >= 1
        /\ (at'[main(Root)] = "start" => Len(threadIds') <= Cardinality(Workers))
    BY <1>3, <1>4
  <2> QED
    BY <2>1, <2>2, <2>3, <2>4, <1>3 DEF InOrder
<1>8. Counted'
  BY <1>1, <1>3, CountFrame DEF SwitchInv, pool
<1>9. Ended'
  BY <1>1, EndedFrame DEF SwitchInv, pool, cpu, stopping
<1> QED
  BY <1>5, <1>6, <1>7, <1>8, <1>9 DEF SwitchInv

-----------------------------------------------------------------------------
(* Where the fiber is that a thread executes.                              *)
LEMMA WhereTaskRuns ==
  ASSUME SwitchInv, NEW t \in Threads, NEW f \in Tasks, exec[t] = f
  PROVE  /\ Where(t) = "done" /\ task[t] = f /\ mutex[f] = t /\ state[f] = "RUNNING"
         /\ tFiber[t] = f /\ tSched[t] = RunStack(t)
<1>1. f # None /\ f # main(Root) /\ f # Sched /\ f # RunStack(t) /\ f # idle(t)
  BY Stacks
<1>2. Where(t) = "done"
  <2>1. CASE t = Root
    BY <2>1, <1>1, Stacks DEF SwitchInv, Placed, Place, RootPlace, Where
  <2>2. CASE t # Root
    BY <2>2, <1>1 DEF SwitchInv, Placed, Place, Begun
  <2> QED
    BY <2>1, <2>2
<1>3. task[t] = f /\ tFiber[t] = f /\ tSched[t] = RunStack(t)
  BY <1>1, <1>2 DEF SwitchInv, Placed, Place, Begun
<1>4. mutex[f] = t /\ t # None
  BY <1>2, <1>3, Stacks DEF SwitchInv, Placed, Mutexes
<1> QED
  BY <1>2, <1>3, <1>4 DEF SwitchInv, Placed, Mutexes

LEMMA WhereIdleRuns ==
  ASSUME SwitchInv, NEW t \in Threads, exec[t] = idle(t)
  PROVE  Where(t) = "take"
<1>1. idle(t) # None /\ idle(t) # main(Root) /\ idle(t) # RunStack(t) /\ idle(t) \notin Tasks
  BY Stacks
<1>2. CASE t = Root
  BY <1>2, <1>1, Stacks DEF SwitchInv, Placed, Place, RootPlace, Where
<1>3. CASE t # Root
  BY <1>3, <1>1 DEF SwitchInv, Placed, Place, Begun
<1> QED
  BY <1>2, <1>3

LEMMA WhereMainRuns ==
  ASSUME SwitchInv, exec[Root] = main(Root), at[main(Root)] \notin {"start", "started", "user"}
  PROVE  at[Sched] = "left"
<1>1. main(Root) # Sched /\ main(Root) # idle(Root) /\ main(Root) \notin Tasks
  BY Stacks
<1> QED
  BY <1>1, Stacks DEF SwitchInv, Placed, Place, RootPlace, Where

LEMMA BusyFinite ==
  /\ IsFiniteSet(Threads) /\ IsFiniteSet(Busy)
  /\ Cardinality(Busy) \in Nat /\ Cardinality(Busy) <= Cardinality(Threads)
  /\ Cardinality(Threads) \in Nat
<1>1. IsFiniteSet(Threads)
  BY SwitchAssumption, FS_AddElement DEF Threads
<1> QED
  BY <1>1, FS_Subset, FS_CardinalityType DEF Busy

LEMMA BusyActive ==
  ASSUME SwitchInv, NEW t \in Threads, Where(t) \in {"task", "done"}
  PROVE  active > 0 /\ ~stopping
<1>1. t \in Busy
  BY DEF Busy
<1>2. Cardinality(Busy) # 0
  BY <1>1, BusyFinite, FS_EmptySet
<1> QED
  BY <1>2, BusyFinite DEF SwitchInv, Counted, stopping

-----------------------------------------------------------------------------
(* run() takes a ticket from the queue.                                    *)
LEMMA TakeKeeps ==
  ASSUME SwitchInv, NEW t \in Threads, Take(t), late' = late
  PROVE  SwitchInv'
<1>1. /\ exec[t] = RunStack(t) /\ Where(t) = "take" /\ queue # <<>>
      /\ task' = [task EXCEPT ![t] = Head(queue)] /\ queue' = Tail(queue)
      /\ active' = active + 1 /\ Goes(RunStack(t), "task")
      /\ UNCHANGED <<cpu, mutex, stopFlag, starters, aborted>>
  BY DEF Take, On, Where
<1>2. /\ at' \in [Spots -> Names]
      /\ Where(t)' = "task" /\ \A s \in Threads : s # t => Where(s)' = Where(s)
      /\ at'[main(Root)] = at[main(Root)]
      /\ at'[Sched] = IF t = Root THEN "task" ELSE at[Sched]
      /\ \A w \in Workers : w # t => at'[main(w)] = at[main(w)]
      /\ t \in Workers => at'[main(t)] = "task"
  BY <1>1, GoesOn DEF SwitchInv, Names
<1>3. Head(queue) \in Tasks /\ Tail(queue) \in Seq(Tasks)
  BY <1>1, HeadTailProperties DEF SwitchInv, SwitchTypes
<1>4. SwitchTypes'
  BY <1>1, <1>2, <1>3 DEF SwitchInv, SwitchTypes, cpu, starters
<1>5. Placed'
  <2>1. ASSUME NEW s \in Threads, s # t PROVE Place(s)'
    BY <2>1, <1>1, <1>2, PlaceFrame DEF SwitchInv, SwitchTypes, Placed, cpu
  <2>2. Place(t)'
    <3>1. task'[t] \in Tasks
      BY <1>1, <1>3 DEF SwitchInv, SwitchTypes
    <3> QED
      BY <1>1, <1>2, <3>1, Stacks DEF SwitchInv, Placed, Place, Begun, cpu
  <2>3. RootPlace'
    BY <1>1, <1>2, Stacks DEF SwitchInv, Placed, RootPlace, cpu, Where
  <2>4. Mutexes'
    <3>1. \A s \in Threads : s # t => task'[s] = task[s]
      BY <1>1 DEF SwitchInv, SwitchTypes
    <3> QED
      BY <1>1, <1>2, <3>1, MutexFrame DEF SwitchInv, Placed, cpu
  <2> QED
    BY <2>1, <2>2, <2>3, <2>4 DEF Placed
<1>6. InOrder'
  BY <1>1, <1>2, OrderFrame, Stacks DEF SwitchInv, StartedPlaces, Where
<1>7. Counted'
  <2>1. Busy' = Busy \cup {t} /\ t \notin Busy
    BY <1>1, <1>2 DEF Busy
  <2> QED
    BY <1>1, <2>1, BusyFinite, FS_AddElement DEF SwitchInv, Counted
<1>8. Ended'
  BY <1>1 DEF SwitchInv, Ended, stopping, cpu
<1> QED
  BY <1>4, <1>5, <1>6, <1>7, <1>8 DEF SwitchInv

(* run() locks the fiber and resumes it, unless it has ended.              *)
LEMMA RunTaskKeeps ==
  ASSUME SwitchInv, NEW t \in Threads, RunTask(t), late' = late
  PROVE  SwitchInv'
<1> DEFINE f == task[t]
<1>1. /\ exec[t] = RunStack(t) /\ Where(t) = "task" /\ mutex[f] = None
      /\ mutex' = [mutex EXCEPT ![f] = t] /\ Goes(RunStack(t), "done")
      /\ IF state[f] = "TERM" THEN UNCHANGED <<cpu, aborted>> ELSE resume(t, f)
      /\ UNCHANGED <<task, pool, starters>>
  BY DEF RunTask, On, Where
<1>2. /\ at' \in [Spots -> Names]
      /\ Where(t)' = "done" /\ \A s \in Threads : s # t => Where(s)' = Where(s)
      /\ at'[main(Root)] = at[main(Root)]
      /\ at'[Sched] = IF t = Root THEN "done" ELSE at[Sched]
      /\ \A w \in Workers : w # t => at'[main(w)] = at[main(w)]
      /\ t \in Workers => at'[main(t)] = "done"
  BY <1>1, GoesOn DEF SwitchInv, Names
<1>3. /\ f \in Tasks /\ f \in Fibers /\ f # Sched /\ f # main(Root) /\ f # None
      /\ \A s \in Threads : f # RunStack(s) /\ f # idle(s)
      /\ state[f] \in {"READY", "TERM"} /\ tSched[t] = RunStack(t)
  BY <1>1, Stacks DEF SwitchInv, SwitchTypes, Placed, Place, Begun, Mutexes
<1>4. \/ state[f] = "TERM" /\ UNCHANGED <<exec, tFiber, tThread, tSched, ctx, state>>
      \/ Moves(t, f) /\ state' = [state EXCEPT ![f] = "RUNNING"]
  BY <1>1, <1>3, ResumeMoves, Stacks DEF SwitchInv, cpu
<1>5. aborted' = aborted
  BY <1>1, <1>3, ResumeMoves, Stacks DEF SwitchInv
<1>6. /\ exec' \in [Threads -> Fibers \cup {None}]
      /\ tFiber' \in [Threads -> Fibers \cup {None}]
      /\ ctx' = ctx /\ tThread' = tThread /\ tSched' = tSched
      /\ state' \in [Fibers -> {"READY", "RUNNING", "TERM"}]
      /\ \A s \in Threads : s # t => exec'[s] = exec[s] /\ tFiber'[s] = tFiber[s]
      /\ exec'[t] = tFiber'[t] /\ exec'[t] = IF state'[f] = "RUNNING" THEN f ELSE RunStack(t)
      /\ \A g \in Fibers : g # f => state'[g] = state[g]
  <2>1. exec[t] = tFiber[t]
    BY <1>1, Stacks DEF SwitchInv, Placed, Place
  <2>2. CASE UNCHANGED <<exec, tFiber, tThread, tSched, ctx, state>>
    <3>1. state[f] = "TERM" \/ state[f] = "READY"
      BY <1>3
    <3> QED
      BY <2>1, <2>2, <3>1, <1>1 DEF SwitchInv, SwitchTypes
  <2>3. CASE Moves(t, f) /\ state' = [state EXCEPT ![f] = "RUNNING"]
    BY <1>3, <2>3 DEF SwitchInv, SwitchTypes, Moves
  <2> QED
    BY <1>4, <2>2, <2>3
<1>7. SwitchTypes'
  BY <1>1, <1>2, <1>3, <1>5, <1>6 DEF SwitchInv, SwitchTypes, pool, starters
<1>8. Placed'
  <2>1. ASSUME NEW s \in Threads, s # t PROVE Place(s)'
    BY <2>1, <1>1, <1>2, <1>3, <1>6, PlaceFrame, Stacks DEF SwitchInv, Placed
  <2>2. Place(t)'
    BY <1>1, <1>2, <1>3, <1>6, Stacks DEF SwitchInv, Placed, Place, Begun
  <2>3. RootPlace'
    BY <1>1, <1>2, <1>3, <1>6, Stacks DEF SwitchInv, Placed, RootPlace, pool, Where
  <2>4. ASSUME NEW g \in Tasks
        PROVE  /\ \A s \in Threads : mutex'[g] = s <=> Where(s)' = "done" /\ task'[s] = g
               /\ state'[g] = "RUNNING" <=> mutex'[g] # None /\ exec'[mutex'[g]] = g
    <3>1. CASE g = f
      <4>1. mutex'[g] = t /\ t # None
        BY <3>1, <1>1, <1>3, Stacks DEF SwitchInv, SwitchTypes
      <4>2. \A s \in Threads : s # t => ~(Where(s) = "done" /\ task[s] = f)
        BY <1>1, <1>3, Stacks DEF SwitchInv, Placed, Mutexes
      <4>3. exec'[t] = f <=> state'[f] = "RUNNING"
        BY <1>3, <1>6
      <4> QED
        BY <3>1, <4>1, <4>2, <4>3, <1>1, <1>2
    <3>2. CASE g # f
      <4>1. mutex'[g] = mutex[g] /\ state'[g] = state[g] /\ mutex[g] # t
            /\ mutex[g] \in Threads \cup {None}
        BY <3>2, <1>1, <1>6, Stacks DEF SwitchInv, SwitchTypes, Placed, Mutexes
      <4>2. \A s \in Threads : mutex'[g] = s <=> Where(s)' = "done" /\ task'[s] = g
        BY <3>2, <4>1, <1>1, <1>2 DEF SwitchInv, Placed, Mutexes
      <4>3. mutex[g] # None => exec'[mutex[g]] = exec[mutex[g]]
        BY <4>1, <1>6
      <4> QED
        BY <4>1, <4>2, <4>3 DEF SwitchInv, Placed, Mutexes
    <3> QED
      BY <3>1, <3>2
  <2> QED
    BY <2>1, <2>2, <2>3, <2>4 DEF Placed, Mutexes
<1>9. InOrder'
  BY <1>1, <1>2, OrderFrame, Stacks DEF SwitchInv, StartedPlaces, Where
<1>10. Counted'
  BY <1>1, <1>2, CountFrame DEF SwitchInv, pool
<1>11. Ended'
  BY <1>1, <1>3, <1>5, <1>6, EndedFrame, Stacks DEF SwitchInv, pool, stopping
<1> QED
  BY <1>7, <1>8, <1>9, <1>10, <1>11 DEF SwitchInv

(* The fiber has yielded or ended; run() unlocks it.                       *)
LEMMA DoneKeeps ==
  ASSUME SwitchInv, NEW t \in Threads, Done(t), late' = late
  PROVE  SwitchInv'
<1> DEFINE f == task[t]
<1>1. /\ exec[t] = RunStack(t) /\ Where(t) = "done"
      /\ mutex' = [mutex EXCEPT ![f] = None] /\ active' = active - 1
      /\ task' = [task EXCEPT ![t] = None] /\ Goes(RunStack(t), "take")
      /\ UNCHANGED <<cpu, queue, stopFlag, starters, aborted>>
  BY DEF Done, On, Where
<1>2. /\ at' \in [Spots -> Names]
      /\ Where(t)' = "take" /\ \A s \in Threads : s # t => Where(s)' = Where(s)
      /\ at'[main(Root)] = at[main(Root)]
      /\ at'[Sched] = IF t = Root THEN "take" ELSE at[Sched]
      /\ \A w \in Workers : w # t => at'[main(w)] = at[main(w)]
      /\ t \in Workers => at'[main(t)] = "take"
  BY <1>1, GoesOn DEF SwitchInv, Names
<1>3. /\ f \in Tasks /\ mutex[f] = t /\ f # None /\ t # None /\ RunStack(t) # f
  BY <1>1, Stacks DEF SwitchInv, Placed, Place, Mutexes
<1>4. active' \in Nat /\ Counted'
  <2>1. t \in Busy /\ Busy' = Busy \ {t}
    BY <1>1, <1>2 DEF Busy
  <2>2. Cardinality(Busy') = Cardinality(Busy) - 1 /\ Cardinality(Busy') \in Nat
    BY <2>1, BusyFinite, FS_RemoveElement, FS_CardinalityType, FS_Subset
  <2> QED
    BY <1>1, <2>2 DEF SwitchInv, Counted
<1>5. SwitchTypes'
  BY <1>1, <1>2, <1>3, <1>4 DEF SwitchInv, SwitchTypes, cpu, starters
<1>6. Placed'
  <2>1. ASSUME NEW s \in Threads, s # t PROVE Place(s)'
    BY <2>1, <1>1, <1>2, PlaceFrame DEF SwitchInv, SwitchTypes, Placed, cpu
  <2>2. Place(t)'
    BY <1>1, <1>2 DEF SwitchInv, SwitchTypes, Placed, Place, Begun, cpu
  <2>3. RootPlace'
    BY <1>1, <1>2, Stacks DEF SwitchInv, Placed, RootPlace, cpu, Where
  <2>4. ASSUME NEW g \in Tasks
        PROVE  /\ \A s \in Threads : mutex'[g] = s <=> Where(s)' = "done" /\ task'[s] = g
               /\ state'[g] = "RUNNING" <=> mutex'[g] # None /\ exec'[mutex'[g]] = g
    <3>1. \A s \in Threads : s # t => task'[s] = task[s]
      BY <1>1 DEF SwitchInv, SwitchTypes
    <3>2. CASE g = f
      <4>1. mutex'[g] = None
        BY <3>2, <1>1, <1>3 DEF SwitchInv, SwitchTypes
      <4>2. \A s \in Threads : s # t => ~(Where(s) = "done" /\ task[s] = f)
        BY <1>1, <1>3, Stacks DEF SwitchInv, Placed, Mutexes
      <4>3. state'[g] # "RUNNING"
        BY <3>2, <1>1, <1>3 DEF SwitchInv, Placed, Mutexes, cpu
      <4> QED
        BY <3>1, <3>2, <4>1, <4>2, <4>3, <1>2, Stacks
    <3>3. CASE g # f
      <4>1. mutex'[g] = mutex[g] /\ state'[g] = state[g] /\ mutex[g] # t /\ exec' = exec
        BY <3>3, <1>1, <1>3 DEF SwitchInv, SwitchTypes, Placed, Mutexes, cpu
      <4> QED
        BY <3>1, <3>3, <4>1, <1>1, <1>2 DEF SwitchInv, Placed, Mutexes
    <3> QED
      BY <3>2, <3>3
  <2> QED
    BY <2>1, <2>2, <2>3, <2>4 DEF Placed, Mutexes
<1>7. InOrder'
  BY <1>1, <1>2, OrderFrame, Stacks DEF SwitchInv, StartedPlaces, Where
<1>8. ~stopping
  BY <1>1, BusyActive
<1>9. Ended'
  BY <1>1, <1>8 DEF SwitchInv, Ended, cpu
<1> QED
  BY <1>4, <1>5, <1>6, <1>7, <1>9 DEF SwitchInv

-----------------------------------------------------------------------------
(* A thread with nothing to do resumes its idle fiber, and that gives it   *)
(* back or ends.                                                           *)
LEMMA IdleSwitches ==
  ASSUME SwitchInv, NEW t \in Threads, ResumeIdle(t) \/ Idle(t), late' = late
  PROVE  SwitchInv' /\ NoTaskResumed
<1>1. UNCHANGED <<mutex, at, task, pool, starters>>
  BY DEF ResumeIdle, Idle
<1>2. idle(t) \in Fibers /\ idle(t) # None /\ idle(t) # Sched /\ idle(t) \notin Tasks
      /\ RunStack(t) \in Fibers /\ RunStack(t) # None /\ RunStack(t) # idle(t)
      /\ Sched # None
  BY Stacks, SwitchAssumption
<1>3. Where(t) = "take" /\ tSched[t] = RunStack(t)
  <2>1. Where(t) = "take"
    BY WhereIdleRuns DEF ResumeIdle, Idle, On, Where
  <2> QED
    BY <2>1 DEF SwitchInv, Placed, Place, Begun
<1>4. \E g \in {RunStack(t), idle(t)}, last \in {"READY", "RUNNING", "TERM"} :
        /\ Moves(t, g) /\ state' = [state EXCEPT ![idle(t)] = last]
        /\ last = "RUNNING" <=> g = idle(t)
        /\ last = "TERM" => stopping
        /\ aborted' = aborted
  <2>1. CASE ResumeIdle(t)
    <3>1. exec[t] = RunStack(t) /\ state[idle(t)] # "TERM" /\ resume(t, idle(t))
      BY <2>1 DEF ResumeIdle, On
    <3>2. state[idle(t)] = "READY"
      BY <3>1, <1>2 DEF SwitchInv, SwitchTypes, Placed, Place
    <3>3. Moves(t, idle(t)) /\ state' = [state EXCEPT ![idle(t)] = "RUNNING"]
          /\ aborted' = aborted
      BY <3>1, <3>2, <1>2, <1>3, ResumeMoves DEF SwitchInv
    <3> QED
      BY <3>3, <1>2
  <2>2. CASE Idle(t)
    <3>1. exec[t] = idle(t) /\ aborted' = aborted /\ tFiber[t] = idle(t)
      BY <2>2, <1>2 DEF Idle, On, SwitchInv, Placed, Place
    <3>2. PICK last \in {"READY", "TERM"} :
            (last = "TERM" => stopping) /\ yield(t, idle(t), last)
      BY <2>2, <3>1 DEF Idle, MainFuncEnds, yieldToReady
    <3>3. Moves(t, RunStack(t)) /\ state' = [state EXCEPT ![idle(t)] = last]
      BY <3>1, <3>2, <1>2, <1>3, YieldMoves DEF SwitchInv
    <3> QED
      BY <3>1, <3>2, <3>3, <1>2
  <2> QED
    BY <2>1, <2>2
<1>5. PICK g \in {RunStack(t), idle(t)}, last \in {"READY", "RUNNING", "TERM"} :
        /\ Moves(t, g) /\ state' = [state EXCEPT ![idle(t)] = last]
        /\ last = "RUNNING" <=> g = idle(t)
        /\ last = "TERM" => stopping
        /\ aborted' = aborted
  BY <1>4
<1>6. /\ exec' \in [Threads -> Fibers \cup {None}]
      /\ tFiber' \in [Threads -> Fibers \cup {None}]
      /\ ctx' = ctx /\ tThread' = tThread /\ tSched' = tSched
      /\ state' \in [Fibers -> {"READY", "RUNNING", "TERM"}]
      /\ \A s \in Threads : s # t => exec'[s] = exec[s] /\ tFiber'[s] = tFiber[s]
      /\ exec'[t] = g /\ tFiber'[t] = g /\ state'[idle(t)] = last
      /\ \A f \in Fibers : f # idle(t) => state'[f] = state[f]
  BY <1>2, <1>5 DEF SwitchInv, SwitchTypes, Moves
<1>7. SwitchTypes'
  BY <1>1, <1>5, <1>6 DEF SwitchInv, SwitchTypes, pool, starters
<1>8. Placed'
  <2>1. ASSUME NEW s \in Threads, s # t PROVE Place(s)'
    BY <2>1, <1>1, <1>6, PlaceFrame, Stacks DEF SwitchInv, Placed, Where
  <2>2. Place(t)'
    BY <1>1, <1>3, <1>5, <1>6, <1>2, Stacks DEF SwitchInv, Placed, Place, Begun, Where
  <2>3. RootPlace'
    BY <1>1, <1>3, <1>6, <1>2, Stacks DEF SwitchInv, Placed, RootPlace, pool, Where
  <2>4. Mutexes'
    BY <1>1, <1>3, <1>6, <1>2, MutexFrame, Stacks DEF SwitchInv, Placed, Where
  <2> QED
    BY <2>1, <2>2, <2>3, <2>4 DEF Placed
<1>9. InOrder'
  BY <1>1, OrderFrame DEF SwitchInv
<1>10. Counted'
  BY <1>1, CountFrame DEF SwitchInv, pool, Where
<1>11. Ended'
  <2>1. stopping' = stopping
    BY <1>1 DEF pool, stopping
  <2>2. \A s \in Threads : s # t => state'[idle(s)] = state[idle(s)]
    BY <1>6, Stacks
  <2> QED
    BY <1>5, <1>6, <2>1, <2>2 DEF SwitchInv, Ended
<1>12. NoTaskResumed
  BY <1>6, Stacks DEF NoTaskResumed
<1> QED
  BY <1>7, <1>8, <1>9, <1>10, <1>11, <1>12 DEF SwitchInv

(* run() returns.                                                          *)
LEMMA LeaveKeeps ==
  ASSUME SwitchInv, NEW t \in Threads, Leave(t), late' = late
  PROVE  SwitchInv' /\ NoTaskResumed
<1>1. /\ exec[t] = RunStack(t) /\ Where(t) = "take" /\ state[idle(t)] = "TERM"
      /\ Goes(RunStack(t), "left")
      /\ UNCHANGED <<mutex, task, pool, starters, aborted>>
  BY DEF Leave, On, Where
<1>2. /\ at' \in [Spots -> Names]
      /\ Where(t)' = "left" /\ \A s \in Threads : s # t => Where(s)' = Where(s)
      /\ at'[main(Root)] = at[main(Root)]
      /\ at'[Sched] = IF t = Root THEN "left" ELSE at[Sched]
      /\ \A w \in Workers : w # t => at'[main(w)] = at[main(w)]
      /\ t \in Workers => at'[main(t)] = "left"
  BY <1>1, GoesOn DEF SwitchInv, Names
<1>3. /\ exec' \in [Threads -> Fibers \cup {None}]
      /\ tFiber' \in [Threads -> Fibers \cup {None}]
      /\ ctx' = ctx /\ tThread' = tThread /\ tSched' = tSched
      /\ state' \in [Fibers -> {"READY", "RUNNING", "TERM"}]
      /\ \A s \in Threads : s # t => exec'[s] = exec[s] /\ tFiber'[s] = tFiber[s]
      /\ exec'[t] = IF t = Root THEN main(Root) ELSE None
      /\ t = Root => tFiber'[t] = main(Root) /\ state'[Sched] = "TERM"
      /\ \A f \in Fibers : f # Sched \/ t # Root => state'[f] = state[f]
  <2>1. CASE t = Root
    <3>1. exec[t] = Sched /\ tFiber[t] = Sched /\ tThread[t] = main(Root)
          /\ Sched \in Fibers /\ main(Root) \in Fibers
      BY <2>1, <1>1, Stacks DEF SwitchInv, Placed, Place, RootPlace
    <3>2. yield(t, Sched, "TERM")
      BY <2>1, <3>1 DEF Leave, MainFuncEnds
    <3>3. Moves(t, main(Root)) /\ state' = [state EXCEPT ![Sched] = "TERM"]
      BY <3>1, <3>2, YieldMoves DEF SwitchInv
    <3> QED
      BY <2>1, <3>1, <3>3 DEF SwitchInv, SwitchTypes, Moves
  <2>2. CASE t # Root
    <3>1. exec' = [exec EXCEPT ![t] = None] /\ UNCHANGED <<tFiber, tThread, tSched, ctx, state>>
      BY <2>2 DEF Leave
    <3> QED
      BY <2>2, <3>1 DEF SwitchInv, SwitchTypes
  <2> QED
    BY <2>1, <2>2
<1>4. SwitchTypes'
  BY <1>1, <1>2, <1>3 DEF SwitchInv, SwitchTypes, pool, starters
<1>5. Placed'
  <2>1. ASSUME NEW s \in Threads, s # t PROVE Place(s)'
    BY <2>1, <1>1, <1>2, <1>3, PlaceFrame, Stacks DEF SwitchInv, Placed
  <2>2. Place(t)'
    BY <1>1, <1>2, <1>3, Stacks DEF SwitchInv, Placed, Place, Begun
  <2>3. RootPlace'
    <3>1. CASE t = Root
      BY <3>1, <1>1, <1>2, <1>3, Stacks DEF SwitchInv, Placed, RootPlace, pool, Where
    <3>2. CASE t # Root
      BY <3>2, <1>1, <1>2, <1>3, RootFrame, Stacks DEF SwitchInv, Placed, pool
    <3> QED
      BY <3>1, <3>2
  <2>4. Mutexes'
    BY <1>1, <1>2, <1>3, MutexFrame, Stacks DEF SwitchInv, Placed
  <2> QED
    BY <2>1, <2>2, <2>3, <2>4 DEF Placed
<1>6. InOrder'
  BY <1>1, <1>2, OrderFrame, Stacks DEF SwitchInv, StartedPlaces, Where
<1>7. Counted'
  BY <1>1, <1>2, CountFrame DEF SwitchInv, pool
<1>8. Ended'
  BY <1>1, <1>3, EndedFrame, Stacks DEF SwitchInv, pool, stopping
<1>9. NoTaskResumed
  BY <1>3, Stacks DEF NoTaskResumed
<1> QED
  BY <1>4, <1>5, <1>6, <1>7, <1>8, <1>9 DEF SwitchInv

-----------------------------------------------------------------------------
(* stop() resumes the scheduler fiber the first time.  The second time it  *)
(* has ended, and the assertion fails unless nothing is left to do.        *)
LEMMA StopKeeps ==
  ASSUME SwitchInv, Stop, late' = late
  PROVE  SwitchInv'
<1>1. /\ exec[Root] = main(Root) /\ at[main(Root)] \in {"user", "stopped"}
      /\ UNCHANGED <<mutex, task, queue, active, starters>>
  BY DEF Stop, On
<1>2. /\ Root \in Threads /\ main(Root) # Sched /\ main(Root) # None /\ Sched # None
      /\ Sched \in Fibers /\ main(Root) \in Fibers /\ Sched \in Spots /\ main(Root) \in Spots
      /\ RunStack(Root) = Sched
  BY Stacks, SwitchAssumption
<1>3. ASSUME NEW p \in {"join", "end"}, Goes(main(Root), p)
      PROVE  /\ at' \in [Spots -> Names] /\ at'[main(Root)] = p /\ at'[Sched] = at[Sched]
             /\ \A w \in Workers : at'[main(w)] = at[main(w)]
             /\ \A s \in Threads : Where(s)' = Where(s)
             /\ InOrder'
  <2>1. at' = [at EXCEPT ![main(Root)] = p]
    BY <1>3 DEF Goes
  <2>2. /\ at' \in [Spots -> Names] /\ at'[main(Root)] = p /\ at'[Sched] = at[Sched]
        /\ \A w \in Workers : at'[main(w)] = at[main(w)]
        /\ \A s \in Threads : Where(s)' = Where(s)
    BY <2>1, Stacks DEF SwitchInv, SwitchTypes, Where, Names
  <2> QED
    BY <2>2, <1>1, OrderFrame DEF SwitchInv
<1>4. CASE stopping
  <2>1. Goes(main(Root), "end") /\ UNCHANGED <<cpu, stopFlag, aborted>>
    BY <1>4 DEF Stop
  <2>2. at[main(Root)] = "stopped"
    BY <1>1, <1>4 DEF SwitchInv, Placed, RootPlace, stopping
  <2>3. Placed'
    <3>1. ASSUME NEW s \in Threads PROVE Place(s)'
      BY <3>1, <2>1, <1>1, <1>3, PlaceFrame DEF SwitchInv, Placed, cpu
    <3>2. RootPlace'
      BY <2>1, <2>2, <1>1, <1>3 DEF SwitchInv, Placed, RootPlace, cpu
    <3>3. Mutexes'
      BY <2>1, <1>1, <1>3, MutexFrame DEF SwitchInv, Placed, cpu
    <3> QED
      BY <3>1, <3>2, <3>3 DEF Placed
  <2>4. SwitchTypes'
    BY <2>1, <1>1, <1>3 DEF SwitchInv, SwitchTypes, cpu, starters
  <2>5. Counted'
    BY <2>1, <1>1, <1>3, CountFrame DEF SwitchInv
  <2>6. Ended'
    BY <2>1, <1>1, EndedFrame DEF SwitchInv, cpu, stopping
  <2> QED
    BY <2>1, <2>3, <2>4, <2>5, <2>6, <1>3 DEF SwitchInv
<1>5. CASE ~stopping
  <2>1. stopFlag' = TRUE /\ Goes(main(Root), "join") /\ resume(Root, Sched)
    BY <1>5 DEF Stop
  <2>2. Counted'
    BY <2>1, <1>1, <1>3, CountFrame DEF SwitchInv
  <2>3. CASE at[main(Root)] = "user"
    <3>1. state[Sched] = "READY" /\ tThread[Root] = main(Root) /\ at[Sched] = "enter"
          /\ tSched[Root] = Sched /\ ~stopFlag
      BY <2>3 DEF SwitchInv, Placed, RootPlace
    <3>2. Moves(Root, Sched) /\ state' = [state EXCEPT ![Sched] = "RUNNING"]
          /\ aborted' = aborted
      BY <2>1, <3>1, <1>1, <1>2, ResumeMoves DEF SwitchInv
    <3>3. /\ exec' \in [Threads -> Fibers \cup {None}]
          /\ tFiber' \in [Threads -> Fibers \cup {None}]
          /\ ctx' = ctx /\ tThread' = tThread /\ tSched' = tSched
          /\ state' \in [Fibers -> {"READY", "RUNNING", "TERM"}]
          /\ \A s \in Threads : s # Root => exec'[s] = exec[s] /\ tFiber'[s] = tFiber[s]
          /\ exec'[Root] = Sched /\ tFiber'[Root] = Sched
          /\ \A f \in Fibers : f # Sched => state'[f] = state[f]
      BY <3>2, <1>2 DEF SwitchInv, SwitchTypes, Moves
    <3>4. SwitchTypes'
      BY <2>1, <3>2, <3>3, <1>1, <1>3 DEF SwitchInv, SwitchTypes, starters
    <3>5. Placed'
      <4>1. ASSUME NEW s \in Threads, s # Root PROVE Place(s)'
        BY <4>1, <2>1, <3>3, <1>1, <1>3, PlaceFrame, Stacks DEF SwitchInv, Placed
      <4>2. Place(Root)'
        <5>1. Where(Root) = "enter"
          BY <3>1, <1>2 DEF Where
        <5> QED
          BY <5>1, <2>1, <3>1, <3>3, <1>1, <1>2, <1>3, Stacks
             DEF SwitchInv, Placed, Place, Begun
      <4>3. RootPlace'
        BY <2>1, <3>1, <3>3, <1>1, <1>3 DEF SwitchInv, Placed, RootPlace
      <4>4. Mutexes'
        <5>1. Where(Root) = "enter"
          BY <3>1, <1>2 DEF Where
        <5> QED
          BY <5>1, <2>1, <3>3, <1>1, <1>3, MutexFrame, Stacks DEF SwitchInv, Placed
      <4> QED
        BY <4>1, <4>2, <4>3, <4>4 DEF Placed
    <3>6. Ended'
      BY <3>1, <3>2, <3>3, Stacks DEF SwitchInv, Ended, stopping
    <3> QED
      BY <2>1, <2>2, <3>4, <3>5, <3>6, <1>3 DEF SwitchInv
  <2>4. CASE at[main(Root)] = "stopped"
    <3>1. at[Sched] = "left" /\ state[Sched] = "TERM" /\ state[idle(Root)] = "TERM"
      BY <2>4, <1>2 DEF SwitchInv, Placed, RootPlace, Place, Where
    <3>2. late
      BY <3>1, <1>2, <1>5 DEF SwitchInv, Ended
    <3>3. aborted' = TRUE /\ UNCHANGED cpu
      BY <2>1, <3>1 DEF resume
    <3>4. SwitchTypes'
      BY <2>1, <3>3, <1>1, <1>3 DEF SwitchInv, SwitchTypes, cpu, starters
    <3>5. Placed'
      <4>1. ASSUME NEW s \in Threads PROVE Place(s)'
        BY <4>1, <3>3, <1>1, <1>3, <2>1, PlaceFrame DEF SwitchInv, Placed, cpu
      <4>2. RootPlace'
        BY <2>1, <3>1, <3>3, <1>1, <1>3 DEF SwitchInv, Placed, RootPlace, cpu
      <4>3. Mutexes'
        BY <2>1, <3>3, <1>1, <1>3, MutexFrame DEF SwitchInv, Placed, cpu
      <4> QED
        BY <4>1, <4>2, <4>3 DEF Placed
    <3>6. Ended'
      BY <3>2 DEF Ended
    <3> QED
      BY <2>1, <2>2, <3>4, <3>5, <3>6, <1>3 DEF SwitchInv
  <2> QED
    BY <2>3, <2>4, <1>1
<1> QED
  BY <1>4, <1>5

(* stop() has joined the workers; the scheduler fiber has ended.           *)
LEMMA JoinKeeps ==
  ASSUME SwitchInv, Join, late' = late
  PROVE  SwitchInv'
<1>1. /\ exec[Root] = main(Root) /\ at[main(Root)] = "join"
      /\ at' = [at EXCEPT ![main(Root)] = "stopped"]
      /\ UNCHANGED <<cpu, mutex, task, pool, starters, aborted>>
  BY DEF Join, On, Goes
<1>2. at[Sched] = "left"
  BY <1>1, WhereMainRuns
<1>3. /\ at' \in [Spots -> Names] /\ at'[main(Root)] = "stopped" /\ at'[Sched] = at[Sched]
      /\ \A w \in Workers : at'[main(w)] = at[main(w)]
      /\ \A s \in Threads : Where(s)' = Where(s)
  BY <1>1, Stacks DEF SwitchInv, SwitchTypes, Where, Names
<1>4. SwitchTypes'
  BY <1>1, <1>3 DEF SwitchInv, SwitchTypes, cpu, pool, starters
<1>5. Placed'
  <2>1. ASSUME NEW s \in Threads PROVE Place(s)'
    BY <2>1, <1>1, <1>3, PlaceFrame DEF SwitchInv, Placed, cpu
  <2>2. RootPlace'
    BY <1>1, <1>2, <1>3 DEF SwitchInv, Placed, RootPlace, cpu, pool
  <2>3. Mutexes'
    BY <1>1, <1>3, MutexFrame DEF SwitchInv, Placed, cpu
  <2> QED
    BY <2>1, <2>2, <2>3 DEF Placed
<1>6. InOrder'
  BY <1>1, <1>3, OrderFrame DEF SwitchInv
<1>7. Counted'
  BY <1>1, <1>3, CountFrame DEF SwitchInv, pool
<1>8. Ended'
  BY <1>1, EndedFrame DEF SwitchInv, cpu, pool, stopping
<1> QED
  BY <1>4, <1>5, <1>6, <1>7, <1>8 DEF SwitchInv

-----------------------------------------------------------------------------
(* A task yields to run(), or ends.                                        *)
LEMMA TaskYields ==
  ASSUME SwitchInv, NEW t \in Threads, NEW f \in Tasks, On(t, f),
         NEW last \in {"READY", "TERM"}, yield(t, tFiber[t], last),
         UNCHANGED <<mutex, at, task, pool, starters, aborted>>, late' = late
  PROVE  SwitchInv' /\ Moves(t, RunStack(t)) /\ state' = [state EXCEPT ![f] = last]
<1>1. /\ exec[t] = f /\ tFiber[t] = f /\ tSched[t] = RunStack(t)
      /\ Where(t) = "done" /\ task[t] = f /\ mutex[f] = t
  BY WhereTaskRuns DEF On
<1>2. /\ f \in Fibers /\ f # Sched /\ f # None /\ RunStack(t) \in Fibers /\ RunStack(t) # None
      /\ RunStack(t) # f /\ t # None /\ \A s \in Threads : f # idle(s) /\ RunStack(t) # idle(s)
  BY Stacks
<1>3. Moves(t, RunStack(t)) /\ state' = [state EXCEPT ![f] = last]
  <2>1. yield(t, f, last) /\ RunStack(t) = IF f = Sched THEN tThread[t] ELSE tSched[t]
    BY <1>1, <1>2
  <2> QED
    BY <2>1, <1>1, <1>2, YieldMoves DEF SwitchInv
<1>4. /\ exec' \in [Threads -> Fibers \cup {None}]
      /\ tFiber' \in [Threads -> Fibers \cup {None}]
      /\ ctx' = ctx /\ tThread' = tThread /\ tSched' = tSched
      /\ state' \in [Fibers -> {"READY", "RUNNING", "TERM"}]
      /\ \A s \in Threads : s # t => exec'[s] = exec[s] /\ tFiber'[s] = tFiber[s]
      /\ exec'[t] = RunStack(t) /\ tFiber'[t] = RunStack(t) /\ state'[f] = last
      /\ \A g \in Fibers : g # f => state'[g] = state[g]
  BY <1>2, <1>3 DEF SwitchInv, SwitchTypes, Moves
<1>5. SwitchTypes'
  BY <1>4 DEF SwitchInv, SwitchTypes, pool, starters
<1>6. Placed'
  <2>1. ASSUME NEW s \in Threads, s # t PROVE Place(s)'
    BY <2>1, <1>2, <1>4, PlaceFrame, Stacks DEF SwitchInv, Placed, Where
  <2>2. Place(t)'
    BY <1>1, <1>2, <1>4, Stacks DEF SwitchInv, Placed, Place, Begun, Where
  <2>3. RootPlace'
    BY <1>1, <1>2, <1>4, Stacks DEF SwitchInv, Placed, RootPlace, pool, Where
  <2>4. ASSUME NEW g \in Tasks
        PROVE  /\ \A s \in Threads : mutex'[g] = s <=> Where(s)' = "done" /\ task'[s] = g
               /\ state'[g] = "RUNNING" <=> mutex'[g] # None /\ exec'[mutex'[g]] = g
    <3>1. \A s \in Threads : mutex'[g] = s <=> Where(s)' = "done" /\ task'[s] = g
      BY DEF SwitchInv, Placed, Mutexes, Where
    <3>2. CASE g = f
      <4>1. state'[g] = last /\ mutex'[g] = t /\ exec'[t] # g
        BY <3>2, <1>1, <1>2, <1>4
      <4> QED
        BY <3>1, <4>1
    <3>3. CASE g # f
      <4>1. mutex'[g] = mutex[g] /\ state'[g] = state[g] /\ mutex[g] # t
            /\ mutex[g] \in Threads \cup {None}
        BY <3>3, <1>1, <1>4, Stacks DEF SwitchInv, SwitchTypes, Placed, Mutexes
      <4>2. mutex[g] # None => exec'[mutex[g]] = exec[mutex[g]]
        BY <4>1, <1>4
      <4> QED
        BY <3>1, <4>1, <4>2 DEF SwitchInv, Placed, Mutexes
    <3> QED
      BY <3>1, <3>2, <3>3
  <2> QED
    BY <2>1, <2>2, <2>3, <2>4 DEF Placed, Mutexes
<1>7. InOrder'
  BY OrderFrame DEF SwitchInv
<1>8. Counted'
  BY CountFrame DEF SwitchInv, pool, Where
<1>9. Ended'
  BY <1>2, <1>4, EndedFrame, Stacks DEF SwitchInv, pool, stopping
<1> QED
  BY <1>3, <1>5, <1>6, <1>7, <1>8, <1>9 DEF SwitchInv

(* notify() puts a fiber into the queue.                                   *)
LEMMA QueueGrows ==
  ASSUME SwitchInv, queue' \in Seq(Tasks), ~stopping \/ late' \/ queue' = queue,
         late => late',
         UNCHANGED <<cpu, mutex, at, task, active, stopFlag, starters, aborted>>
  PROVE  SwitchInv'
<1>1. SwitchTypes'
  BY DEF SwitchInv, SwitchTypes, cpu, starters
<1>2. Placed'
  <2>1. ASSUME NEW s \in Threads PROVE Place(s)'
    BY <2>1, PlaceFrame DEF SwitchInv, Placed, cpu, Where
  <2>2. RootPlace'
    BY RootFrame DEF SwitchInv, Placed, cpu
  <2>3. Mutexes'
    BY MutexFrame DEF SwitchInv, Placed, cpu, Where
  <2> QED
    BY <2>1, <2>2, <2>3 DEF Placed
<1>3. InOrder'
  BY OrderFrame DEF SwitchInv
<1>4. Counted'
  BY CountFrame DEF SwitchInv, Where
<1>5. Ended'
  BY DEF SwitchInv, Ended, stopping, cpu
<1> QED
  BY <1>1, <1>2, <1>3, <1>4, <1>5 DEF SwitchInv

LEMMA SwitchStays ==
  ASSUME SwitchInv, UNCHANGED switchVars, late' = late
  PROVE  SwitchInv'
BY QueueGrows DEF switchVars, cpu, pool, starters, SwitchInv, SwitchTypes

-----------------------------------------------------------------------------
(* Everything the threads do.                                              *)
LEMMA SwitchStarts ==
  ASSUME SwitchInit
  PROVE  SwitchInv
<1>1. /\ \A t \in Threads : exec[t] = IF t = Root THEN main(Root) ELSE None
      /\ tFiber = exec /\ tThread = exec
      /\ \A t \in Threads : tSched[t] = IF t = Root THEN Sched ELSE None
      /\ \A f \in Fibers : state[f] = IF f = main(Root) THEN "RUNNING" ELSE "READY"
      /\ \A f \in Tasks : mutex[f] = None
      /\ \A t \in Threads : task[t] = None
      /\ active = 0 /\ ~stopFlag /\ ~aborted /\ threadIds = <<Root>>
      /\ \A w \in Workers : tid[w] = None /\ sem[w] = 0
  BY DEF SwitchInit
<1>2. /\ at \in [Spots -> Names] /\ at[main(Root)] = Starting /\ at[Sched] = "enter"
      /\ \A w \in Workers : at[main(w)] = "none"
      /\ Where(Root) = "enter" /\ \A w \in Workers : Where(w) = "none"
  <2>1. at = [f \in Spots |->
                IF f = main(Root) THEN Starting ELSE IF f = Sched THEN "enter" ELSE "none"]
    BY DEF SwitchInit, Spots
  <2> QED
    BY <2>1, Stacks DEF Names, Starting, Where
<1>3. SwitchTypes
  <2>1. queue \in Seq(Tasks)
    <3>1. queue = SetToSeq(Tasks) /\ SetToSeq(Tasks) \in [1..Cardinality(Tasks) -> Tasks]
          /\ Cardinality(Tasks) \in Nat
      BY SetToSeqIsOrder, SwitchAssumption DEF SwitchInit
    <3> QED
      BY <3>1, SeqDef
  <2>2. threadIds \in Seq(Threads) /\ active \in Nat /\ stopFlag \in BOOLEAN
        /\ aborted \in BOOLEAN
    <3>1. stopFlag \in BOOLEAN /\ aborted \in BOOLEAN
      BY Zenon DEF SwitchInit
    <3>2. <<Root>> \in Seq(Threads)
      BY Stacks
    <3> QED
      BY <1>1, <3>1, <3>2
  <2>3. /\ exec \in [Threads -> Fibers \cup {None}]
        /\ tFiber \in [Threads -> Fibers \cup {None}]
        /\ tThread \in [Threads -> Fibers \cup {None}]
        /\ tSched \in [Threads -> Fibers \cup {None}]
    BY Stacks DEF SwitchInit
  <2>4. /\ ctx = [f \in Fibers |-> f]
        /\ state \in [Fibers -> {"READY", "RUNNING", "TERM"}]
        /\ mutex \in [Tasks -> Threads \cup {None}]
        /\ task \in [Threads -> Tasks \cup {None}]
        /\ tid \in [Workers -> Workers \cup {None}] /\ sem \in [Workers -> 0..1]
    BY DEF SwitchInit
  <2> QED
    BY <1>2, <2>1, <2>2, <2>3, <2>4 DEF SwitchTypes
<1>4. Placed
  <2>1. ASSUME NEW t \in Threads PROVE Place(t)
    <3>1. CASE t = Root
      BY <3>1, <1>1, <1>2, Stacks DEF Place, Begun
    <3>2. CASE t # Root
      BY <3>2, <1>1, <1>2, Stacks DEF Place, Begun
    <3> QED
      BY <3>1, <3>2
  <2>2. RootPlace
    BY <1>1, <1>2, Stacks DEF RootPlace, Starting
  <2>3. Mutexes
    <3>1. \A t \in Threads : Where(t) # "done" /\ t # None
      BY <1>2, Stacks
    <3>2. \A f \in Tasks : state[f] = "READY"
      BY <1>1, Stacks
    <3> QED
      BY <3>1, <3>2, <1>1 DEF Mutexes
  <2> QED
    BY <2>1, <2>2, <2>3 DEF Placed
<1>5. InOrder
  <2>1. Cardinality(Workers) \in Nat /\ (Cardinality(Workers) = 0 <=> Workers = {})
    BY SwitchAssumption, FS_CardinalityType, FS_EmptySet
  <2>2. \A i \in 1..Cardinality(Workers) : SetToSeq(Workers)[i] \in Workers
    BY SetToSeqIsOrder, SwitchAssumption
  <2>3. Len(threadIds) = 1
    BY <1>1
  <2> QED
    BY <1>1, <1>2, <2>1, <2>2, <2>3 DEF InOrder, HasId, Starting
<1>6. Counted
  <2>1. Busy = {}
    BY <1>2, Stacks DEF Busy
  <2> QED
    BY <1>1, <2>1, FS_EmptySet DEF Counted
<1>7. Ended
  BY <1>1, Stacks DEF Ended
<1> QED
  BY <1>3, <1>4, <1>5, <1>6, <1>7 DEF SwitchInv

LEMMA ThreadStepKeeps ==
  ASSUME SwitchInv, NEW t \in Threads, ThreadStep(t), late' = late
  PROVE  SwitchInv'
BY EnterKeeps, TakeKeeps, RunTaskKeeps, DoneKeeps, IdleSwitches, LeaveKeeps DEF
       ThreadStep

LEMMA StartStepKeeps ==
  ASSUME SwitchInv, NEW w \in Workers, StartStep(w), late' = late
  PROVE  SwitchInv'
BY CreateKeeps, WorkerStarts, StartedKeeps DEF StartStep

(* A task that runs keeps the pool from stopping, and main() notifies      *)
(* before stop() or late.                                                  *)
LEMMA NotifyKeeps ==
  ASSUME SwitchInv, waiters \in Seq(Tasks), Notify, late => late',
         \/ \E t \in Threads, f \in Tasks : exec[t] = f
         \/ at[main(Root)] = "user" \/ late'
  PROVE  SwitchInv'
<1>1. UNCHANGED <<cpu, mutex, at, task, active, stopFlag, starters, aborted>>
  BY DEF Notify
<1>2. queue' \in Seq(Tasks)
  <2>1. queue \in Seq(Tasks) /\ (waiters # <<>> => Head(waiters) \in Tasks)
    BY HeadTailProperties DEF SwitchInv, SwitchTypes
  <2>2. CASE waiters # <<>>
    <3>1. queue' = Append(queue, Head(waiters))
      BY <2>2 DEF Notify
    <3> QED
      BY <2>1, <2>2, <3>1, AppendProperties
  <2>3. CASE waiters = <<>>
    <3>1. queue' = queue
      BY <2>3, Zenon DEF Notify
    <3> QED
      BY <2>1, <3>1
  <2> QED
    BY <2>2, <2>3
<1>3. ~stopping \/ late'
  <2>1. ASSUME NEW t \in Threads, NEW f \in Tasks, exec[t] = f PROVE ~stopping
    BY <2>1, WhereTaskRuns, BusyActive
  <2>2. ASSUME at[main(Root)] = "user" PROVE ~stopping
    BY <2>2 DEF SwitchInv, Placed, RootPlace, stopping
  <2> QED
    BY <2>1, <2>2
<1> QED
  BY <1>1, <1>2, <1>3, QueueGrows

(* A task's step either leaves the threads alone, or notifies, or yields.  *)
LEMMA TaskStepSwitches ==
  ASSUME NEW t \in Threads, NEW f \in Tasks, TaskStep(t, f)
  PROVE  /\ On(t, f) /\ late' = late
         /\ \/ UNCHANGED switchVars
            \/ notify(t, f)
            \/ \E last \in {"READY", "TERM"} :
                 /\ yield(t, tFiber[t], last)
                 /\ last = IF Park(t, f) THEN "READY" ELSE "TERM"
                 /\ Park(t, f) \/ Return(t, f)
                 /\ UNCHANGED <<mutex, at, task, pool, starters, aborted>>
<1>1. CASE notify(t, f)
  BY <1>1 DEF notify, Ready
<1>2. CASE tryWait(t, f) \/ wait(t, f) \/ Woken(t, f) \/ reset(t, f)
  BY <1>2 DEF tryWait, wait, Woken, reset, Ready
<1>3. CASE Park(t, f)
  BY <1>3 DEF Park, yieldToReady
<1>4. CASE Return(t, f)
  <2>1. ~Park(t, f)
    BY <1>4 DEF Return, Park, Ready
  <2> QED
    BY <1>4, <2>1 DEF Return, MainFuncEnds, Ready
<1>5. ASSUME NEW kind, GuardStep(t, f, kind)
      PROVE  On(t, f) /\ late' = late /\ UNCHANGED switchVars
  BY <1>5 DEF GuardStep, Construct, GuardLock, GuardUnlock, Destruct, Method, Ready
<1> QED
  BY <1>1, <1>2, <1>3, <1>4, <1>5
     DEF TaskStep, ScopedLockImpl, ReadScopedLockImpl, WriteScopedLockImpl

LEMMA SwitchKeeps ==
  ASSUME SwitchInv, waiters \in Seq(Tasks), Next
  PROVE  SwitchInv'
<1>1. PICK t \in Threads : Step(t)
  BY DEF Next
<1>2. CASE ThreadStep(t) /\ Untouched
  BY <1>2, ThreadStepKeeps DEF Untouched
<1>3. CASE Acquire(t)
  BY <1>3, SwitchStays DEF Acquire
<1>4. ASSUME NEW f \in Tasks, TaskStep(t, f) PROVE SwitchInv'
  <2>1. exec[t] = f /\ late' = late
    BY <1>4, TaskStepSwitches DEF On
  <2>2. CASE UNCHANGED switchVars
    BY <2>1, <2>2, SwitchStays
  <2>3. CASE notify(t, f)
    BY <2>1, <2>3, NotifyKeeps DEF notify
  <2>4. ASSUME NEW last \in {"READY", "TERM"}, yield(t, tFiber[t], last),
               UNCHANGED <<mutex, at, task, pool, starters, aborted>>
        PROVE  SwitchInv'
    BY <1>4, <2>1, <2>4, TaskYields, TaskStepSwitches
  <2> QED
    BY <1>4, <2>2, <2>3, <2>4, TaskStepSwitches
<1>5. CASE t = Root /\ MainNotify
  BY <1>5, NotifyKeeps DEF MainNotify, InMain
<1>6. CASE t = Root /\ (Stop \/ Join) /\ Untouched
  BY <1>6, StopKeeps, JoinKeeps DEF Untouched
<1>7. CASE t \in Workers /\ StartStep(t) /\ Untouched
  BY <1>7, StartStepKeeps DEF Untouched
<1> QED
  BY <1>1, <1>2, <1>3, <1>4, <1>5, <1>6, <1>7 DEF Step, MainStep

-----------------------------------------------------------------------------
(* A queue or a list without repetitions.                                  *)
LEMMA AppendContains ==
  ASSUME NEW S, NEW s \in Seq(S), NEW x \in S, IsInjective(s), ~Contains(s, x)
  PROVE  /\ Append(s, x) \in Seq(S) /\ IsInjective(Append(s, x))
         /\ \A y : Contains(Append(s, x), y) <=> Contains(s, y) \/ y = x
<1> DEFINE a == Append(s, x)
<1>1. /\ Len(s) \in Nat /\ a \in Seq(S) /\ Len(a) = Len(s) + 1
      /\ DOMAIN s = 1..Len(s) /\ DOMAIN a = 1..(Len(s) + 1)
      /\ \A i \in 1..Len(s) : a[i] = s[i]
      /\ a[Len(s) + 1] = x
  BY AppendProperties, LenProperties
<1> HIDE DEF a
<1>2. IsInjective(a)
  BY <1>1 DEF IsInjective, Contains
<1>3. \A y : Contains(a, y) <=> Contains(s, y) \/ y = x
  BY <1>1 DEF Contains
<1> QED
  BY <1>1, <1>2, <1>3 DEF a

LEMMA TailContains ==
  ASSUME NEW S, NEW s \in Seq(S), s # <<>>, IsInjective(s)
  PROVE  /\ Tail(s) \in Seq(S) /\ IsInjective(Tail(s))
         /\ Head(s) \in S /\ Contains(s, Head(s))
         /\ \A y : Contains(Tail(s), y) <=> Contains(s, y) /\ y # Head(s)
<1> DEFINE a == Tail(s)
<1>1. /\ Len(s) \in Nat \ {0} /\ a \in Seq(S) /\ Len(a) = Len(s) - 1
      /\ DOMAIN s = 1..Len(s) /\ DOMAIN a = 1..(Len(s) - 1)
      /\ \A i \in 1..(Len(s) - 1) : a[i] = s[i + 1]
      /\ Head(s) = s[1] /\ Head(s) \in S
  BY HeadTailProperties, LenProperties, EmptySeq
<1> HIDE DEF a
<1>2. \A i, j \in 1..Len(s) : s[i] = s[j] => i = j
  BY <1>1 DEF IsInjective
<1>3. IsInjective(a)
  BY <1>1, <1>2 DEF IsInjective
<1>4. Contains(s, Head(s))
  BY <1>1 DEF Contains
<1>5. ASSUME NEW y PROVE Contains(a, y) <=> Contains(s, y) /\ y # Head(s)
  <2>1. ASSUME Contains(a, y) PROVE Contains(s, y) /\ y # Head(s)
    <3>1. PICK i \in 1..(Len(s) - 1) : s[i + 1] = y
      BY <2>1, <1>1 DEF Contains
    <3>2. i + 1 \in 1..Len(s) /\ 1 \in 1..Len(s) /\ i + 1 # 1
      BY <1>1
    <3> QED
      BY <3>1, <3>2, <1>1, <1>2 DEF Contains
  <2>2. ASSUME Contains(s, y), y # Head(s) PROVE Contains(a, y)
    <3>1. PICK i \in 1..Len(s) : s[i] = y
      BY <2>2 DEF Contains
    <3>2. i - 1 \in 1..(Len(s) - 1) /\ a[i - 1] = y
      BY <2>2, <3>1, <1>1
    <3> QED
      BY <3>2, <1>1 DEF Contains
  <2> QED
    BY <2>1, <2>2
<1> QED
  BY <1>1, <1>3, <1>4, <1>5 DEF a

(* The count is a size_t.                                                  *)
LEMMA PlusCounts ==
  ASSUME NEW n \in 0..SizeMax
  PROVE  /\ Plus(n, 1) \in 0..SizeMax /\ Plus(n, SizeMax) \in 0..SizeMax
         /\ n < SizeMax => Plus(n, 1) = n + 1
         /\ n > 0 => Plus(n, SizeMax) = n - 1
<1>1. SizeMax \in Nat
  BY SizesAssumption
<1>2. \A m \in Nat : m % (SizeMax + 1) \in 0..SizeMax
  BY <1>1
<1>3. ASSUME NEW m \in 0..SizeMax
      PROVE  m % (SizeMax + 1) = m /\ (m + (SizeMax + 1)) % (SizeMax + 1) = m
  BY <1>1
<1>4. n < SizeMax => n + 1 \in 0..SizeMax
  BY <1>1
<1>5. n > 0 => n - 1 \in 0..SizeMax /\ n + SizeMax = (n - 1) + (SizeMax + 1)
  BY <1>1
<1> QED
  BY <1>1, <1>2, <1>3, <1>4, <1>5 DEF Plus

-----------------------------------------------------------------------------
(* Tickets.  A ticket that is used up, and a fiber that stops running,     *)
(* leave the others as they are.                                           *)
LEMMA TicketsFrame ==
  ASSUME Tickets, UNCHANGED <<queue, waiters, phase>>,
         \A t \in Threads : Taken(t)' => Taken(t) /\ task'[t] = task[t],
         \A t \in Threads, f \in Tasks :
           exec'[t] = f => exec[t] = f \/ (Taken(t) /\ task[t] = f /\ ~Taken(t)')
  PROVE  Tickets'
<1>1. \A f \in Tasks : (Queued(f)' <=> Queued(f)) /\ (Waits(f)' <=> Waits(f))
  BY DEF Queued, Waits
<1>2. ASSUME NEW t \in Threads, NEW f \in Tasks, exec'[t] = f, phase'[f] # "parked"
      PROVE  ~Queued(f)' /\ ~Waits(f)' /\ \A s \in Threads : Taken(s)' => task'[s] # f
  <2>1. CASE exec[t] = f
    BY <1>1, <1>2, <2>1 DEF Tickets
  <2>2. CASE Taken(t) /\ task[t] = f /\ ~Taken(t)'
    BY <1>1, <1>2, <2>2 DEF Tickets, Queued, Waits
  <2> QED
    BY <1>2, <2>1, <2>2
<1> QED
  BY <1>1, <1>2 DEF Tickets, Queued, Waits

(* run() takes the first ticket of the queue.                              *)
LEMMA TakeTickets ==
  ASSUME SwitchInv, Tickets, NEW t \in Threads, Take(t), UNCHANGED <<waiters, phase>>
  PROVE  Tickets'
<1> DEFINE h == Head(queue)
<1>1. /\ queue # <<>> /\ queue' = Tail(queue) /\ task' = [task EXCEPT ![t] = h]
      /\ Where(t) = "take" /\ UNCHANGED exec /\ Goes(RunStack(t), "task")
  BY DEF Take, cpu, Where
<1>2. /\ h \in Tasks /\ Queued(h) /\ IsInjective(queue')
      /\ \A f \in Tasks : (Queued(f)' <=> Queued(f) /\ f # h) /\ (Waits(f)' <=> Waits(f))
  BY <1>1, TailContains DEF SwitchInv, SwitchTypes, Tickets, Queued, Waits
<1>3. /\ task'[t] = h /\ Taken(t)' /\ ~Taken(t)
      /\ \A s \in Threads : s # t => task'[s] = task[s] /\ (Taken(s)' <=> Taken(s))
  BY <1>1, GoesOn DEF SwitchInv, SwitchTypes, Taken, Names
<1> HIDE DEF h
<1>4. \A s \in Threads : Taken(s) => task[s] # h
  BY <1>2 DEF Tickets
<1>5. ASSUME NEW s \in Threads, Taken(s)', NEW f, f = task'[s]
      PROVE  ~Queued(f)' /\ ~Waits(f)'
  <2>1. CASE s = t
    BY <2>1, <1>2, <1>3, <1>5 DEF Tickets
  <2>2. CASE s # t
    <3>1. f \in Tasks /\ Taken(s) /\ task[s] = f
      BY <2>2, <1>3, <1>5 DEF SwitchInv, Placed, Place, Taken
    <3> QED
      BY <3>1, <1>2 DEF Tickets
  <2> QED
    BY <2>1, <2>2
<1>5a. \A s \in Threads : (Taken(s) => ~Queued(task[s]) /\ ~Waits(task[s]))'
  BY <1>5 DEF Queued, Waits
<1>6. \A s, u \in Threads : Taken(s)' /\ Taken(u)' /\ task'[s] = task'[u] => s = u
  BY <1>3, <1>4 DEF Tickets
<1>7. ASSUME NEW s \in Threads, NEW f \in Tasks, exec'[s] = f, phase'[f] # "parked"
      PROVE  ~Queued(f)' /\ ~Waits(f)' /\ \A u \in Threads : Taken(u)' => task'[u] # f
  <2>1. ~Queued(f) /\ ~Waits(f) /\ \A u \in Threads : Taken(u) => task[u] # f
    BY <1>1, <1>7 DEF Tickets
  <2> QED
    BY <2>1, <1>2, <1>3
<1>8. IsInjective(waiters)' /\ \A f \in Tasks : Waits(f)' => phase'[f] # "go"
  BY <1>2 DEF Tickets
<1>9. \A f \in Tasks : (~(Queued(f) /\ Waits(f)))'
  BY <1>2 DEF Tickets
<1> QED
  BY <1>2, <1>5a, <1>6, <1>7, <1>8, <1>9 DEF Tickets

(* notify() moves one from the list to the queue.                          *)
LEMMA NotifyTickets ==
  ASSUME SwitchInv, Tickets, waiters \in Seq(Tasks), waiters # <<>>,
         queue' = Append(queue, Head(waiters)), waiters' = Tail(waiters),
         UNCHANGED <<cpu, at, task, phase>>
  PROVE  /\ Tickets' /\ Head(waiters) \in Tasks /\ Waits(Head(waiters))
         /\ \A f \in Tasks : Waits(f)' <=> Waits(f) /\ f # Head(waiters)
<1> DEFINE h == Head(waiters)
<1>1. /\ h \in Tasks /\ Waits(h) /\ IsInjective(waiters')
      /\ \A f : Waits(f)' <=> Waits(f) /\ f # h
  BY TailContains DEF Tickets, Waits
<1>2. IsInjective(queue') /\ \A f : Queued(f)' <=> Queued(f) \/ f = h
  <2>1. queue \in Seq(Tasks) /\ ~Contains(queue, h)
    BY <1>1 DEF SwitchInv, SwitchTypes, Tickets, Queued
  <2> QED
    BY <1>1, <2>1, AppendContains DEF Tickets, Queued
<1> HIDE DEF h
<1>3. \A t \in Threads : (Taken(t)' <=> Taken(t)) /\ (Taken(t) => task[t] # h)
  BY <1>1 DEF Tickets, Taken, Where
<1>4. \A t \in Threads : exec[t] = h => phase[h] = "parked"
  BY <1>1 DEF Tickets
<1> QED
  BY <1>1, <1>2, <1>3, <1>4 DEF Tickets, cpu, h

(* wait() adds the caller, who has none.                                   *)
LEMMA WaitTickets ==
  ASSUME SwitchInv, Tickets, waiters \in Seq(Tasks), phase \in [Tasks -> {"go", "parked", "away"}],
         NEW t \in Threads, NEW f \in Tasks, exec[t] = f, phase[f] = "go",
         waiters' = Append(waiters, f), phase' = [phase EXCEPT ![f] = "parked"],
         UNCHANGED switchVars
  PROVE  /\ Tickets' /\ waiters' \in Seq(Tasks)
         /\ \A g \in Tasks : Waits(g)' <=> Waits(g) \/ g = f
<1>1. ~Queued(f) /\ ~Waits(f) /\ \A s \in Threads : Taken(s) => task[s] # f
  BY DEF Tickets
<1>2. waiters' \in Seq(Tasks) /\ IsInjective(waiters')
      /\ \A g : Waits(g)' <=> Waits(g) \/ g = f
  BY <1>1, AppendContains DEF Tickets, Waits
<1>3. /\ \A g : Queued(g)' <=> Queued(g)
      /\ \A s \in Threads : Taken(s)' <=> Taken(s)
      /\ exec' = exec /\ task' = task /\ queue' = queue
  BY DEF switchVars, cpu, pool, Queued, Taken, Where
<1> QED
  BY <1>1, <1>2, <1>3 DEF Tickets

(* A task that runs moves on in its calls.                                 *)
LEMMA PhaseTickets ==
  ASSUME SwitchInv, Tickets, phase \in [Tasks -> {"go", "parked", "away"}],
         NEW t \in Threads, NEW f \in Tasks, exec[t] = f,
         NEW p \in {"go", "away"}, phase' = [phase EXCEPT ![f] = p],
         p = "go" => phase[f] = "away",
         p = "away" => \A s \in Threads : exec'[s] # f,
         \A s \in Threads, g \in Tasks : exec'[s] = g => exec[s] = g,
         UNCHANGED <<queue, at, task, waiters>>
  PROVE  Tickets'
<1>1. /\ \A g : (Queued(g)' <=> Queued(g)) /\ (Waits(g)' <=> Waits(g))
      /\ \A s \in Threads : Taken(s)' <=> Taken(s)
  BY DEF Queued, Waits, Taken, Where
<1>2. p = "go" => ~Waits(f)
  BY DEF Tickets
<1>3. ASSUME NEW s \in Threads, NEW g \in Tasks, exec'[s] = g, phase'[g] # "parked"
      PROVE  ~Queued(g)' /\ ~Waits(g)' /\ \A u \in Threads : Taken(u)' => task'[u] # g
  <2>1. exec[s] = g /\ phase[g] # "parked"
    BY <1>3
  <2> QED
    BY <1>1, <2>1 DEF Tickets
<1> QED
  BY <1>1, <1>2, <1>3 DEF Tickets

-----------------------------------------------------------------------------
(* Calls.                                                                  *)
LEMMA ProgramTypes ==
  ASSUME InCalls, NEW f \in Tasks
  PROVE  /\ Len(prog[f]) \in Nat /\ pc[f] \in Nat /\ pc[f] \in 1..(Len(prog[f]) + 1)
         /\ Op(f) # "return" => pc[f] <= Len(prog[f])
         /\ pc[f] <= Len(prog[f]) =>
              Op(f) = prog[f][pc[f]] /\ Op(f) \in Constructors \cup
                {"lock", "unlock", "~Lock", "wait", "tryWait", "notify", "reset"}
<1>1. prog[f] \in Seq(Constructors \cup {"lock", "unlock", "~Lock",
                                         "wait", "tryWait", "notify", "reset"})
  BY ScenariosAssumption DEF InCalls
<1>2. Len(prog[f]) \in Nat /\ pc[f] \in 1..(Len(prog[f]) + 1)
  BY <1>1, LenProperties DEF InCalls
<1>3. pc[f] <= Len(prog[f]) => pc[f] \in 1..Len(prog[f])
  BY <1>2
<1> QED
  BY <1>1, <1>2, <1>3, ElementOfSeq DEF Op

LEMMA CallsStay ==
  ASSUME InCalls, UNCHANGED <<prog, pc>>,
         \A f \in Tasks : phase'[f] # "go" => Op(f) = "wait"
  PROVE  InCalls'
BY DEF InCalls, Op

LEMMA CallsAdvance ==
  ASSUME InCalls, pc \in [Tasks -> Nat], NEW f \in Tasks, Op(f) # "return", Next_(f), prog' = prog,
         phase'[f] = "go", \A g \in Tasks : g # f => phase'[g] = phase[g]
  PROVE  InCalls' /\ pc' \in [Tasks -> Nat] /\ pc'[f] = pc[f] + 1
<1>1. /\ Len(prog[f]) \in Nat /\ pc[f] \in 1..(Len(prog[f]) + 1) /\ pc[f] <= Len(prog[f])
      /\ pc' = [pc EXCEPT ![f] = pc[f] + 1]
  BY ProgramTypes DEF Next_
<1>2. pc'[f] \in 1..(Len(prog[f]) + 1)
  BY <1>1
<1>3. \A g \in Tasks : g # f => pc'[g] = pc[g]
  BY <1>1
<1>4. \A g \in Tasks : g # f => Op(g)' = Op(g)
  BY <1>3 DEF Op
<1> QED
  BY <1>1, <1>2, <1>3, <1>4 DEF InCalls

-----------------------------------------------------------------------------
(* Units.                                                                  *)
LEMMA UnitsFrame ==
  ASSUME UnitsKept, UNCHANGED <<concurrency, got, lost, given, waiters, phase>>,
         raced => raced'
  PROVE  UnitsKept'
BY DEF UnitsKept, Pending

LEMMA PendingFinite ==
  IsFiniteSet(Pending) /\ Cardinality(Pending) \in Nat
<1>1. Pending \subseteq Tasks
  BY DEF Pending
<1> QED
  BY <1>1, SwitchAssumption, FS_Subset, FS_CardinalityType

(* The count that was read is the count, or raced is set.                  *)
LEMMA UnlockTypes ==
  ASSUME SemaTypes, Unlock
  PROVE  /\ spin' \in Threads \cup {None} /\ seen' \in 0..SizeMax /\ raced' \in BOOLEAN
         /\ ~raced' => ~raced /\ seen = concurrency
<1>1. spin' = None /\ seen' = 0 /\ 0 \in 0..SizeMax
  BY SizesAssumption DEF Unlock
<1>2. raced' \in BOOLEAN /\ (~raced' => ~raced /\ seen = concurrency)
  BY Zenon DEF Unlock
<1> QED
  BY <1>1, <1>2

LEMMA StoreTypes ==
  ASSUME SemaTypes, NEW d \in {1, SizeMax}, Store(d)
  PROVE  /\ concurrency' \in 0..SizeMax
         /\ seen = concurrency => concurrency' = Plus(concurrency, d)
BY PlusCounts DEF SemaTypes, Store

LEMMA NotifyUnits ==
  ASSUME SwitchInv, SemaTypes, Tickets, UnitsKept, Notify, UNCHANGED <<phase, got>>
  PROVE  /\ Tickets' /\ UnitsKept' /\ waiters' \in Seq(Tasks)
         /\ spin' \in Threads \cup {None} /\ seen' \in 0..SizeMax /\ raced' \in BOOLEAN
         /\ concurrency' \in 0..SizeMax /\ given' \in Nat /\ lost' = lost
<1>1. /\ Unlock /\ given' = given + 1 /\ lost' = lost
      /\ UNCHANGED <<cpu, mutex, at, task, active, stopFlag, starters, aborted>>
  BY DEF Notify
<1>2. /\ spin' \in Threads \cup {None} /\ seen' \in 0..SizeMax /\ raced' \in BOOLEAN
      /\ ~raced' => ~raced /\ seen = concurrency
  BY <1>1, UnlockTypes
<1>3. /\ SizeMax \in Nat /\ waiters \in Seq(Tasks) /\ given \in Nat /\ got \in Nat /\ lost \in Nat
      /\ concurrency \in 0..SizeMax
  BY SizesAssumption DEF SemaTypes
<1>4. ASSUME ~raced', given' <= SizeMax
      PROVE  /\ concurrency + got + Cardinality(Pending) + lost = given
             /\ concurrency > 0 => waiters = <<>>
  BY <1>1, <1>2, <1>3, <1>4 DEF UnitsKept
<1>5. CASE waiters # <<>>
  <2>1. /\ queue' = Append(queue, Head(waiters)) /\ waiters' = Tail(waiters)
        /\ concurrency' = concurrency
    BY <1>5 DEF Notify
  <2>2. /\ Tickets' /\ Head(waiters) \in Tasks /\ Waits(Head(waiters))
        /\ \A f \in Tasks : Waits(f)' <=> Waits(f) /\ f # Head(waiters)
    BY <1>1, <1>3, <1>5, <2>1, NotifyTickets
  <2>3. Pending' = Pending \cup {Head(waiters)} /\ Head(waiters) \notin Pending
    BY <2>2 DEF Pending, Waits, Tickets
  <2>4. Cardinality(Pending') = Cardinality(Pending) + 1
    BY <2>3, PendingFinite, FS_AddElement
  <2>5. UnitsKept'
    <3>1. SUFFICES ASSUME ~raced', given' <= SizeMax
                   PROVE  /\ concurrency' + got' + Cardinality(Pending') + lost' = given'
                          /\ concurrency' > 0 => waiters' = <<>>
      BY <1>1, <1>3 DEF UnitsKept
    <3>2. concurrency' = 0
      BY <2>1, <3>1, <1>3, <1>4, <1>5
    <3> QED
      BY <3>1, <3>2, <2>1, <2>4, <1>1, <1>3, <1>4, PendingFinite
  <2>6. waiters' \in Seq(Tasks)
    BY <2>1, <1>3, <1>5, HeadTailProperties
  <2> QED
    BY <2>1, <2>2, <2>5, <2>6, <1>1, <1>2, <1>3
<1>6. CASE waiters = <<>>
  <2>1. Store(1) /\ queue' = queue /\ waiters' = waiters
    BY <1>6, Zenon DEF Notify
  <2>2. Tickets'
    <3>1. UNCHANGED <<queue, waiters, phase>>
      BY <2>1
    <3>3. \A t \in Threads, f \in Tasks :
            exec'[t] = f => exec[t] = f \/ (Taken(t) /\ task[t] = f /\ ~Taken(t)')
      BY <1>1 DEF cpu
    <3>2. \A t \in Threads : Taken(t)' => Taken(t) /\ task'[t] = task[t]
      BY <1>1 DEF Taken, Where
    <3> QED
      BY <3>1, <3>2, <3>3, TicketsFrame
  <2>3. concurrency' \in 0..SizeMax
        /\ (seen = concurrency => concurrency' = Plus(concurrency, 1))
    BY <2>1, StoreTypes
  <2>4. UnitsKept'
    <3>1. SUFFICES ASSUME ~raced', given' <= SizeMax
                   PROVE  concurrency' + got' + Cardinality(Pending') + lost' = given'
      BY <2>1, <1>1, <1>3, <1>6 DEF UnitsKept
    <3>2. Pending' = Pending
      BY <2>1 DEF Pending
    <3>3. concurrency < SizeMax
      BY <3>1, <1>1, <1>3, <1>4, PendingFinite
    <3>4. concurrency' = concurrency + 1
      BY <3>1, <3>3, <2>3, <1>2, <1>3, PlusCounts
    <3> QED
      BY <3>1, <3>2, <3>4, <1>1, <1>3, <1>4, PendingFinite
  <2> QED
    BY <2>1, <2>2, <2>3, <2>4, <1>1, <1>2, <1>3
<1> QED
  BY <1>5, <1>6

(* wait() and tryWait() take a unit of the count.                          *)
LEMMA TakeUnit ==
  ASSUME SemaTypes, UnitsKept, Unlock, seen > 0, Store(SizeMax), got' = got + 1,
         UNCHANGED <<waiters, phase, given, lost>>
  PROVE  UnitsKept' /\ concurrency' \in 0..SizeMax
<1>1. ~raced' => ~raced /\ seen = concurrency
  BY UnlockTypes
<1>2. /\ SizeMax \in Nat /\ given \in Nat /\ got \in Nat /\ lost \in Nat
      /\ concurrency \in 0..SizeMax /\ Pending' = Pending
  BY SizesAssumption DEF SemaTypes, Pending
<1>3. concurrency' \in 0..SizeMax
      /\ (seen = concurrency => concurrency' = Plus(concurrency, SizeMax))
  BY StoreTypes
<1>4. ASSUME ~raced' PROVE concurrency > 0 /\ concurrency' = concurrency - 1
  BY <1>1, <1>2, <1>3, <1>4, PlusCounts
<1> QED
  BY <1>1, <1>2, <1>3, <1>4, PendingFinite DEF UnitsKept

-----------------------------------------------------------------------------
(* Every step keeps the semaphore's invariant.                             *)
LEMMA SemaStays ==
  ASSUME SemaInv, UNCHANGED <<prog, pc, phase, semaVars, got>>, Tickets',
         late' \in BOOLEAN, misused' \in BOOLEAN
  PROVE  SemaInv'
<1>1. SemaTypes'
  BY DEF SemaInv, SemaTypes, semaVars
<1>2. InCalls'
  BY CallsStay DEF SemaInv, InCalls
<1>3. UnitsKept'
  BY UnitsFrame DEF SemaInv, semaVars
<1> QED
  BY <1>1, <1>2, <1>3 DEF SemaInv

LEMMA ThreadKeepsSema ==
  ASSUME SwitchInv, SemaInv, NEW t \in Threads, ThreadStep(t), Untouched
  PROVE  SemaInv'
<1>1. /\ UNCHANGED <<prog, pc, phase, semaVars, got>> /\ UNCHANGED <<waiters, phase>>
      /\ late' \in BOOLEAN /\ misused' \in BOOLEAN
  BY DEF Untouched, semaVars, lockVars, SemaInv, SemaTypes
<1>2. CASE Take(t)
  BY <1>1, <1>2, TakeTickets, SemaStays DEF SemaInv
<1>3. CASE RunTask(t)
  <2>1. /\ Where(t) = "task" /\ Goes(RunStack(t), "done") /\ UNCHANGED <<task, pool>>
        /\ UNCHANGED exec \/ exec' = [exec EXCEPT ![t] = task[t]]
    <3>1. ctx[task[t]] = task[t]
      BY <1>3, Stacks DEF RunTask, SwitchInv, SwitchTypes, Placed, Place, Where
    <3> QED
      BY <1>3, <3>1 DEF RunTask, resume, swapcontext, cpu, Where
  <2>2. Where(t)' = "done" /\ \A s \in Threads : s # t => Where(s)' = Where(s)
    BY <2>1, GoesOn DEF SwitchInv, Names
  <2>3. \A s \in Threads : Taken(s)' => Taken(s) /\ task'[s] = task[s]
    BY <2>1, <2>2 DEF Taken
  <2>4. \A s \in Threads, f \in Tasks :
          exec'[s] = f => exec[s] = f \/ (Taken(s) /\ task[s] = f /\ ~Taken(s)')
    BY <2>1, <2>2 DEF Taken, SwitchInv, SwitchTypes
  <2> QED
    BY <1>1, <2>1, <2>3, <2>4, TicketsFrame, SemaStays DEF SemaInv, pool
<1>4. CASE Enter(t) \/ Done(t) \/ ResumeIdle(t) \/ Idle(t) \/ Leave(t)
  <2>1. queue' = queue /\ \A s \in Threads : Taken(s)' => Taken(s) /\ task'[s] = task[s]
    <3>1. CASE Enter(t)
      <4>1. Goes(RunStack(t), "take") /\ UNCHANGED <<task, pool>>
        BY <3>1 DEF Enter
      <4> QED
        BY <4>1, GoesOn DEF Taken, pool, SwitchInv, Names
    <3>2. CASE Done(t)
      <4>1. /\ Goes(RunStack(t), "take") /\ task' = [task EXCEPT ![t] = None]
            /\ queue' = queue
        BY <3>2 DEF Done
      <4> QED
        BY <4>1, GoesOn DEF Taken, SwitchInv, SwitchTypes, Names
    <3>3. CASE ResumeIdle(t) \/ Idle(t)
      BY <3>3 DEF ResumeIdle, Idle, Taken, Where, pool
    <3>4. CASE Leave(t)
      <4>1. Goes(RunStack(t), "left") /\ UNCHANGED <<task, pool>>
        BY <3>4 DEF Leave
      <4> QED
        BY <4>1, GoesOn DEF Taken, pool, SwitchInv, Names
    <3> QED
      BY <1>4, <3>1, <3>2, <3>3, <3>4
  <2>2. NoTaskResumed
    <3>1. CASE Enter(t) \/ ResumeIdle(t) \/ Idle(t) \/ Leave(t)
      BY <3>1, EnterKeeps, IdleSwitches, LeaveKeeps DEF Untouched
    <3>2. CASE Done(t)
      BY <3>2 DEF Done, cpu, NoTaskResumed
    <3> QED
      BY <1>4, <3>1, <3>2
  <2>3. \A s \in Threads, f \in Tasks : exec'[s] = f => exec[s] = f
    BY <2>2 DEF NoTaskResumed
  <2> QED
    BY <1>1, <2>1, <2>3, TicketsFrame, SemaStays DEF SemaInv
<1> QED
  BY <1>2, <1>3, <1>4 DEF ThreadStep

LEMMA OutsideKeepsSema ==
  ASSUME SwitchInv, SemaInv, (\E w \in Workers : StartStep(w)) \/ Stop \/ Join, Untouched
  PROVE  SemaInv'
<1>1. /\ UNCHANGED <<prog, pc, phase, semaVars, got>> /\ UNCHANGED <<waiters, phase>>
      /\ late' \in BOOLEAN /\ misused' \in BOOLEAN
  BY DEF Untouched, semaVars, lockVars, SemaInv, SemaTypes
<1>2. UNCHANGED <<task, queue>>
  BY DEF StartStep, Create, SetId, Signal, Started, Stop, Join, pool
<1>3. ASSUME NEW t \in Threads, Taken(t)' PROVE Taken(t)
  <2>1. \E p, q \in Names \ {"task"}, w \in Threads :
          at' = [at EXCEPT ![main(w)] = p, ![main(Root)] = q]
    <3>1. CASE \E w \in Workers : Create(w)
      BY <3>1, Stacks DEF Create, Names
    <3>2. CASE \E w \in Workers : SetId(w) \/ Signal(w)
      <4>1. PICK w \in Workers, p \in {"signal", "enter"} : at' = [at EXCEPT ![main(w)] = p]
        BY <3>2 DEF SetId, Signal, Goes
      <4>2. at[main(Root)] \in {"start", "started", "user", "join", "stopped", "end"}
            /\ main(w) # main(Root) /\ w \in Threads
        BY Stacks DEF SwitchInv, Placed, RootPlace
      <4>3. at' = [at EXCEPT ![main(w)] = p, ![main(Root)] = at[main(Root)]]
        BY <4>1, <4>2, Stacks DEF SwitchInv, SwitchTypes
      <4> QED
        BY <4>2, <4>3 DEF Names
    <3>3. CASE (\E w \in Workers : Started(w)) \/ Stop \/ Join
      <4>1. PICK q \in Names \ {"task"} : at' = [at EXCEPT ![main(Root)] = q]
        BY <3>3 DEF Started, Stop, Join, Goes, Names
      <4>2. at' = [at EXCEPT ![main(Root)] = q, ![main(Root)] = q]
        BY <4>1, Stacks DEF SwitchInv, SwitchTypes
      <4> QED
        BY <4>1, <4>2, Stacks
    <3> QED
      BY <3>1, <3>2, <3>3 DEF StartStep
  <2> QED
    BY <2>1, <1>3, Stacks DEF SwitchInv, SwitchTypes, Taken, Where
<1>4. ASSUME NEW t \in Threads, NEW f \in Tasks, exec'[t] = f PROVE exec[t] = f
  <2>1. exec' = exec \/ exec' = [exec EXCEPT ![Root] = ctx[Sched]]
    BY DEF StartStep, Create, SetId, Signal, Started, Stop, Join, resume, swapcontext,
           cpu
  <2>2. ctx[Sched] = Sched
    BY Stacks DEF SwitchInv, SwitchTypes
  <2> QED
    BY <2>1, <2>2, <1>4, Stacks DEF SwitchInv, SwitchTypes
<1>5. Tickets'
  BY <1>1, <1>2, <1>3, <1>4, TicketsFrame DEF SemaInv
<1> QED
  BY <1>1, <1>5, SemaStays

(* A call that the task makes returns, or it waits.                        *)
LEMMA GuardsKeepSema ==
  ASSUME SwitchInv, SemaInv, NEW t \in Threads, NEW f \in Tasks,
         NEW kind \in Constructors, GuardStep(t, f, kind)
  PROVE  SemaInv'
<1>1. /\ UNCHANGED <<switchVars, prog, phase, semaVars, got, late>> /\ Next_(f)
      /\ phase[f] = "go" /\ Op(f) # "return" /\ misused' \in BOOLEAN
  <2>1. CASE Construct(t, f, kind)
    <3>1. misused' \in BOOLEAN
      BY <2>1, Zenon DEF Construct
    <3>2. kind # "return"
      BY DEF Constructors
    <3> QED
      BY <2>1, <3>1, <3>2 DEF Construct, Ready
  <2>2. CASE GuardLock(t, f, kind) \/ GuardUnlock(t, f, kind) \/ Destruct(t, f, kind)
    BY <2>2 DEF GuardLock, GuardUnlock, Destruct, Method, Ready, SemaInv, SemaTypes
  <2> QED
    BY <2>1, <2>2 DEF GuardStep
<1>2. InCalls' /\ pc' \in [Tasks -> Nat]
  BY <1>1, CallsAdvance DEF SemaInv, SemaTypes
<1>3. Tickets'
  <2>1. UNCHANGED <<queue, waiters, phase>>
    BY <1>1 DEF switchVars, pool, semaVars
  <2>2. \A s \in Threads : exec'[s] = exec[s] /\ task'[s] = task[s] /\ (Taken(s)' <=> Taken(s))
    BY <1>1 DEF switchVars, cpu, Taken, Where
  <2> QED
    BY <2>1, <2>2, TicketsFrame DEF SemaInv
<1>4. UnitsKept'
  BY <1>1, UnitsFrame DEF SemaInv, semaVars
<1> QED
  BY <1>1, <1>2, <1>3, <1>4 DEF SemaInv, SemaTypes, semaVars

LEMMA NotifyKeepsSema ==
  ASSUME SwitchInv, SemaInv, NEW t \in Threads,
         (\E f \in Tasks : notify(t, f)) \/ MainNotify
  PROVE  SemaInv'
<1>1. Notify /\ UNCHANGED <<prog, phase, got, misused>> /\ late' \in BOOLEAN
  <2>1. CASE \E f \in Tasks : notify(t, f)
    BY <2>1 DEF notify, lockVars, SemaInv, SemaTypes
  <2>2. CASE MainNotify
    <3>1. late' \in BOOLEAN
      BY <2>2, Zenon DEF MainNotify
    <3> QED
      BY <2>2, <3>1 DEF MainNotify, lockVars
  <2> QED
    BY <2>1, <2>2
<1>2. InCalls' /\ pc' \in [Tasks -> Nat]
  <2>1. ASSUME NEW f \in Tasks, notify(t, f) PROVE InCalls' /\ pc' \in [Tasks -> Nat]
    BY <2>1, CallsAdvance DEF notify, Ready, SemaInv, SemaTypes
  <2>2. CASE MainNotify
    BY <2>2, CallsStay DEF MainNotify, SemaInv, SemaTypes, InCalls
  <2> QED
    BY <2>1, <2>2
<1>3. /\ Tickets' /\ UnitsKept' /\ waiters' \in Seq(Tasks)
      /\ spin' \in Threads \cup {None} /\ seen' \in 0..SizeMax /\ raced' \in BOOLEAN
      /\ concurrency' \in 0..SizeMax /\ given' \in Nat /\ lost' = lost
  BY <1>1, NotifyUnits DEF SemaInv
<1> QED
  BY <1>1, <1>2, <1>3 DEF SemaInv, SemaTypes

LEMMA UnitKeepsSema ==
  ASSUME SwitchInv, SemaInv, NEW t \in Threads, NEW f \in Tasks,
         tryWait(t, f) \/ (wait(t, f) /\ seen > 0)
  PROVE  SemaInv'
<1>1. /\ exec[t] = f /\ phase[f] = "go" /\ Op(f) # "return" /\ Unlock /\ Next_(f)
      /\ UNCHANGED <<switchVars, prog, phase, waiters, given, lost, late, misused>>
      /\ \/ seen > 0 /\ Store(SizeMax) /\ got' = got + 1
         \/ UNCHANGED <<concurrency, got>>
  BY DEF tryWait, wait, Ready, On, lockVars
<1>2. InCalls' /\ pc' \in [Tasks -> Nat]
  BY <1>1, CallsAdvance DEF SemaInv, SemaTypes
<1>3. /\ spin' \in Threads \cup {None} /\ seen' \in 0..SizeMax /\ raced' \in BOOLEAN
      /\ raced => raced'
  BY <1>1, UnlockTypes DEF SemaInv
<1>4. UnitsKept' /\ concurrency' \in 0..SizeMax /\ got' \in Nat
  <2>1. CASE seen > 0 /\ Store(SizeMax) /\ got' = got + 1
    BY <2>1, <1>1, TakeUnit DEF SemaInv, SemaTypes
  <2>2. CASE UNCHANGED <<concurrency, got>>
    BY <2>2, <1>1, <1>3, UnitsFrame DEF SemaInv, SemaTypes
  <2> QED
    BY <2>1, <2>2, <1>1
<1>5. Tickets'
  <2>1. UNCHANGED <<queue, waiters, phase>>
    BY <1>1 DEF switchVars, pool
  <2>2. \A s \in Threads : exec'[s] = exec[s] /\ task'[s] = task[s] /\ (Taken(s)' <=> Taken(s))
    BY <1>1 DEF switchVars, cpu, Taken, Where
  <2> QED
    BY <2>1, <2>2, TicketsFrame DEF SemaInv
<1> QED
  BY <1>1, <1>2, <1>3, <1>4, <1>5 DEF SemaInv, SemaTypes

LEMMA WaitKeepsSema ==
  ASSUME SwitchInv, SemaInv, NEW t \in Threads, NEW f \in Tasks, wait(t, f), ~(seen > 0)
  PROVE  SemaInv'
<1>1. /\ exec[t] = f /\ phase[f] = "go" /\ Op(f) = "wait" /\ Unlock
      /\ waiters' = Append(waiters, tFiber[t]) /\ phase' = [phase EXCEPT ![f] = "parked"]
      /\ UNCHANGED <<concurrency, got, pc, switchVars, prog, given, lost, late, misused>>
  BY DEF wait, Ready, On, lockVars
<1>2. waiters' = Append(waiters, f)
  BY <1>1, WhereTaskRuns
<1>3. /\ spin' \in Threads \cup {None} /\ seen' \in 0..SizeMax /\ raced' \in BOOLEAN
      /\ ~raced' => ~raced /\ seen = concurrency
  BY <1>1, UnlockTypes DEF SemaInv
<1>4. /\ Tickets' /\ waiters' \in Seq(Tasks)
      /\ \A g \in Tasks : Waits(g)' <=> Waits(g) \/ g = f
  BY <1>1, <1>2, WaitTickets DEF SemaInv, SemaTypes
<1>5. InCalls'
  <2>1. \A g \in Tasks : phase'[g] # "go" => Op(g) = "wait"
    BY <1>1 DEF SemaInv, SemaTypes, InCalls
  <2> QED
    BY <1>1, <2>1, CallsStay DEF SemaInv
<1>6. UnitsKept'
  <2>1. Pending' = Pending
    <3>1. \A g \in Tasks : g # f => (g \in Pending' <=> g \in Pending)
      BY <1>1, <1>4 DEF SemaInv, SemaTypes, Pending, Waits
    <3>2. f \notin Pending /\ f \notin Pending'
      BY <1>1, <1>4 DEF Pending, Waits
    <3>3. Pending \subseteq Tasks /\ Pending' \subseteq Tasks
      BY DEF Pending
    <3> QED
      BY <3>1, <3>2, <3>3
  <2>2. seen \in Nat /\ concurrency \in Nat
    BY SizesAssumption DEF SemaInv, SemaTypes
  <2>3. ~raced' => ~(concurrency > 0)
    BY <2>2, <1>3
  <2> QED
    BY <2>1, <2>3, <1>1, <1>3 DEF SemaInv, UnitsKept
<1>7. phase' \in [Tasks -> {"go", "parked", "away"}]
  BY <1>1 DEF SemaInv, SemaTypes
<1> QED
  BY <1>1, <1>3, <1>4, <1>5, <1>6, <1>7 DEF SemaInv, SemaTypes

(* The fiber leaves its thread and comes back: it has no ticket then.      *)
LEMMA ParkKeepsSema ==
  ASSUME SwitchInv, SemaInv, NEW t \in Threads, NEW f \in Tasks, Park(t, f)
  PROVE  SemaInv'
<1>1. /\ On(t, f) /\ exec[t] = f /\ phase[f] = "parked" /\ yield(t, tFiber[t], "READY")
      /\ phase' = [phase EXCEPT ![f] = "away"]
      /\ UNCHANGED <<mutex, at, task, pool, starters, aborted, prog, pc, semaVars, got, late>>
  BY DEF Park, yieldToReady, On
<1>2. Moves(t, RunStack(t))
  BY <1>1, TaskYields
<1>3. /\ RunStack(t) \notin Tasks /\ \A s \in Threads : s # t => exec'[s] = exec[s]
      /\ exec'[t] = RunStack(t)
  BY <1>2, Stacks DEF Moves, SwitchInv, SwitchTypes
<1>4. Tickets'
  <2>1. \A s \in Threads : exec'[s] # f
    BY <1>1, <1>3, WhereTaskRuns
  <2>2. \A s \in Threads, g \in Tasks : exec'[s] = g => exec[s] = g
    BY <1>3
  <2>3. UNCHANGED <<queue, at, task, waiters>>
    BY <1>1 DEF pool, semaVars
  <2> QED
    BY <1>1, <2>1, <2>2, <2>3, PhaseTickets DEF SemaInv, SemaTypes
<1>5. phase' \in [Tasks -> {"go", "parked", "away"}] /\ phase'[f] = "away"
      /\ \A g \in Tasks : g # f => phase'[g] = phase[g]
  BY <1>1 DEF SemaInv, SemaTypes
<1>6. InCalls'
  BY <1>1, <1>5, CallsStay DEF SemaInv, InCalls
<1>7. UnitsKept'
  <2>1. Pending' = Pending
    BY <1>1, <1>5 DEF Pending, semaVars
  <2> QED
    BY <1>1, <2>1 DEF SemaInv, UnitsKept, semaVars
<1>8. misused' \in BOOLEAN
  BY Zenon DEF Park
<1> QED
  BY <1>1, <1>4, <1>5, <1>6, <1>7, <1>8 DEF SemaInv, SemaTypes, semaVars

LEMMA WokenKeepsSema ==
  ASSUME SwitchInv, SemaInv, NEW t \in Threads, NEW f \in Tasks, Woken(t, f)
  PROVE  SemaInv'
<1>1. /\ exec[t] = f /\ phase[f] = "away" /\ phase' = [phase EXCEPT ![f] = "go"]
      /\ got' = got + 1 /\ Next_(f)
      /\ UNCHANGED <<switchVars, prog, semaVars, late, misused>>
  BY DEF Woken, On, lockVars
<1>2. phase' \in [Tasks -> {"go", "parked", "away"}] /\ phase'[f] = "go"
      /\ \A g \in Tasks : g # f => phase'[g] = phase[g]
  BY <1>1 DEF SemaInv, SemaTypes
<1>3. Tickets'
  <2>1. \A s \in Threads, g \in Tasks : exec'[s] = g => exec[s] = g
    BY <1>1 DEF switchVars, cpu
  <2>2. UNCHANGED <<queue, at, task, waiters>>
    BY <1>1 DEF switchVars, pool, semaVars
  <2> QED
    BY <1>1, <2>1, <2>2, PhaseTickets DEF SemaInv, SemaTypes
<1>4. InCalls' /\ pc' \in [Tasks -> Nat]
  <2>1. Op(f) = "wait"
    BY <1>1 DEF SemaInv, InCalls
  <2> QED
    BY <1>1, <1>2, <2>1, CallsAdvance DEF SemaInv, SemaTypes
<1>5. UnitsKept'
  <2>1. ~Waits(f)
    BY <1>1 DEF SemaInv, Tickets
  <2>2. f \in Pending /\ Pending' = Pending \ {f}
    BY <1>1, <1>2, <2>1 DEF Pending, Waits, semaVars
  <2>3. Cardinality(Pending') = Cardinality(Pending) - 1
    BY <2>2, PendingFinite, FS_RemoveElement
  <2>4. /\ concurrency \in Nat /\ got \in Nat /\ lost \in Nat
        /\ UNCHANGED <<concurrency, lost, given, raced, waiters>>
    BY <1>1, SizesAssumption DEF SemaInv, SemaTypes, semaVars
  <2> QED
    BY <1>1, <2>3, <2>4, PendingFinite DEF SemaInv, UnitsKept
<1> QED
  BY <1>1, <1>2, <1>3, <1>4, <1>5 DEF SemaInv, SemaTypes, semaVars

LEMMA ReturnKeepsSema ==
  ASSUME SwitchInv, SemaInv, NEW t \in Threads, NEW f \in Tasks, Return(t, f)
  PROVE  SemaInv'
<1>1. /\ On(t, f) /\ yield(t, tFiber[t], "TERM")
      /\ UNCHANGED <<mutex, at, task, pool, starters, aborted, prog, pc, phase, semaVars,
                     got, late, misused>>
  BY DEF Return, MainFuncEnds, Ready, lockVars
<1>2. Moves(t, RunStack(t))
  BY <1>1, TaskYields
<1>3. \A s \in Threads, g \in Tasks : exec'[s] = g => exec[s] = g
  BY <1>2, Stacks DEF Moves, SwitchInv, SwitchTypes
<1>4. Tickets'
  <2>1. UNCHANGED <<queue, waiters, phase>>
    BY <1>1 DEF pool, semaVars
  <2>2. \A s \in Threads : Taken(s)' => Taken(s) /\ task'[s] = task[s]
    BY <1>1 DEF Taken, Where
  <2> QED
    BY <2>1, <2>2, <1>3, TicketsFrame DEF SemaInv
<1>5. late' \in BOOLEAN /\ misused' \in BOOLEAN
  BY <1>1 DEF SemaInv, SemaTypes
<1> QED
  BY <1>1, <1>4, <1>5, SemaStays

LEMMA ResetKeepsSema ==
  ASSUME SwitchInv, SemaInv, NEW t \in Threads, NEW f \in Tasks, reset(t, f)
  PROVE  SemaInv'
<1>1. /\ concurrency' = 0 /\ lost' = lost + concurrency /\ Next_(f)
      /\ phase[f] = "go" /\ Op(f) # "return"
      /\ UNCHANGED <<switchVars, prog, phase, waiters, spin, seen, given, raced, got, late,
                     misused>>
  BY DEF reset, Reset, Ready, lockVars
<1>2. InCalls' /\ pc' \in [Tasks -> Nat]
  BY <1>1, CallsAdvance DEF SemaInv, SemaTypes
<1>3. Tickets'
  <2>1. UNCHANGED <<queue, waiters, phase>>
    BY <1>1 DEF switchVars, pool
  <2>2. \A s \in Threads : exec'[s] = exec[s] /\ task'[s] = task[s] /\ (Taken(s)' <=> Taken(s))
    BY <1>1 DEF switchVars, cpu, Taken, Where
  <2> QED
    BY <2>1, <2>2, TicketsFrame DEF SemaInv
<1>4. concurrency \in Nat /\ got \in Nat /\ lost \in Nat /\ concurrency' \in 0..SizeMax
  BY <1>1, SizesAssumption DEF SemaInv, SemaTypes
<1>5. UnitsKept'
  <2>1. Pending' = Pending
    BY <1>1 DEF Pending
  <2> QED
    BY <1>1, <1>4, <2>1, PendingFinite DEF SemaInv, UnitsKept
<1> QED
  BY <1>1, <1>2, <1>3, <1>4, <1>5 DEF SemaInv, SemaTypes

LEMMA AcquireKeepsSema ==
  ASSUME SwitchInv, SemaInv, NEW t \in Threads, Acquire(t)
  PROVE  SemaInv'
<1>1. /\ spin' = t /\ seen' = concurrency
      /\ UNCHANGED <<switchVars, prog, pc, phase, concurrency, waiters, given, lost, raced,
                     got, late, misused>>
  BY DEF Acquire, lockVars
<1>2. Tickets'
  <2>1. UNCHANGED <<queue, waiters, phase>>
    BY <1>1 DEF switchVars, pool
  <2>2. \A s \in Threads : exec'[s] = exec[s] /\ task'[s] = task[s] /\ (Taken(s)' <=> Taken(s))
    BY <1>1 DEF switchVars, cpu, Taken, Where
  <2> QED
    BY <2>1, <2>2, TicketsFrame DEF SemaInv
<1>3. InCalls'
  BY <1>1, CallsStay DEF SemaInv, InCalls
<1>4. UnitsKept'
  BY <1>1, UnitsFrame DEF SemaInv
<1> QED
  BY <1>1, <1>2, <1>3, <1>4 DEF SemaInv, SemaTypes

LEMMA SemaStarts ==
  ASSUME Init
  PROVE  SemaInv
<1>1. SwitchInv /\ queue = SetToSeq(Tasks)
  BY SwitchStarts DEF Init, SwitchInit
<1>2. SemaTypes
  <2>1. raced \in BOOLEAN /\ late \in BOOLEAN /\ misused \in BOOLEAN
    BY Zenon DEF Init
  <2>2. /\ pc \in [Tasks -> Nat] /\ phase \in [Tasks -> {"go", "parked", "away"}]
        /\ waiters = <<>> /\ spin = None /\ concurrency = Initial /\ seen = 0
        /\ given = Initial /\ got = 0 /\ lost = 0
    BY DEF Init
  <2>3. Initial \in 0..SizeMax /\ 0 \in 0..SizeMax /\ Initial \in Nat
    BY SizesAssumption
  <2> QED
    BY <2>1, <2>2, <2>3 DEF SemaTypes
<1>3. InCalls
  <2>1. prog \in Scenarios /\ \A f \in Tasks : pc[f] = 1 /\ phase[f] = "go"
    BY DEF Init
  <2>2. \A f \in Tasks : Len(prog[f]) \in Nat
    BY <2>1, ScenariosAssumption, LenProperties
  <2> QED
    BY <2>1, <2>2 DEF InCalls
<1>4. Tickets
  <2>1. IsInjective(queue) /\ IsInjective(waiters) /\ \A f \in Tasks : ~Waits(f)
    <3>1. IsInjective(queue)
      BY <1>1, SetToSeqIsOrder, SwitchAssumption
    <3>2. waiters = <<>> /\ Len(waiters) = 0 /\ DOMAIN waiters = {}
      BY EmptySeq DEF Init
    <3> QED
      BY <3>1, <3>2 DEF IsInjective, Waits, Contains
  <2>2. \A t \in Threads : ~Taken(t) /\ \A f \in Tasks : exec[t] # f
    <3>1. ASSUME NEW t \in Threads
          PROVE  exec[t] \in {main(Root), None} /\ Where(t) \in {"enter", "none"}
      BY Stacks DEF Init, SwitchInit, Where, Spots
    <3> QED
      BY <3>1, Stacks DEF Taken
  <2> QED
    BY <2>1, <2>2 DEF Tickets
<1>5. UnitsKept
  <2>1. Pending = {}
    BY DEF Init, Pending
  <2>2. Initial \in Nat
    BY SizesAssumption
  <2> QED
    BY <2>1, <2>2, FS_EmptySet DEF Init, UnitsKept
<1> QED
  BY <1>2, <1>3, <1>4, <1>5 DEF SemaInv

LEMMA SemaKeeps ==
  ASSUME SwitchInv, SemaInv, Next
  PROVE  SemaInv'
<1>1. PICK t \in Threads : Step(t)
  BY DEF Next
<1>2. CASE ThreadStep(t) /\ Untouched
  BY <1>2, ThreadKeepsSema
<1>3. CASE Acquire(t)
  BY <1>3, AcquireKeepsSema
<1>4. ASSUME NEW f \in Tasks, TaskStep(t, f) PROVE SemaInv'
  <2>1. CASE notify(t, f)
    BY <2>1, NotifyKeepsSema
  <2>2. CASE tryWait(t, f)
    BY <2>2, UnitKeepsSema
  <2>3. CASE wait(t, f)
    BY <2>3, UnitKeepsSema, WaitKeepsSema
  <2>4. CASE Park(t, f)
    BY <2>4, ParkKeepsSema
  <2>5. CASE Woken(t, f)
    BY <2>5, WokenKeepsSema
  <2>6. CASE reset(t, f)
    BY <2>6, ResetKeepsSema
  <2>7. CASE Return(t, f)
    BY <2>7, ReturnKeepsSema
  <2>8. CASE ScopedLockImpl(t, f) \/ ReadScopedLockImpl(t, f) \/ WriteScopedLockImpl(t, f)
    BY <2>8, GuardsKeepSema
       DEF ScopedLockImpl, ReadScopedLockImpl, WriteScopedLockImpl, Constructors
  <2> QED
    BY <1>4, <2>1, <2>2, <2>3, <2>4, <2>5, <2>6, <2>7, <2>8 DEF TaskStep
<1>5. CASE t = Root /\ MainNotify
  BY <1>5, NotifyKeepsSema
<1>6. CASE t = Root /\ (Stop \/ Join) /\ Untouched
  BY <1>6, OutsideKeepsSema
<1>7. CASE t \in Workers /\ StartStep(t) /\ Untouched
  BY <1>7, OutsideKeepsSema
<1> QED
  BY <1>1, <1>2, <1>3, <1>4, <1>5, <1>6, <1>7 DEF Step, MainStep

-----------------------------------------------------------------------------
(* The guards.  Their number is the depth of the scopes the task is in.    *)
LEMMA NestedAdvance ==
  ASSUME InCalls, NEW f \in Tasks, Nested(f), Op(f) # "return", prog' = prog,
         pc'[f] = pc[f] + 1, Len(guards[f]) \in Nat,
         Len(guards'[f]) = IF Op(f) \in Constructors THEN Len(guards[f]) + 1
                           ELSE IF Op(f) = "~Lock" THEN Len(guards[f]) - 1
                           ELSE Len(guards[f])
  PROVE  Nested(f)' /\ (Op(f) \in {"lock", "unlock", "~Lock"} => Len(guards[f]) > 0)
<1>1. /\ Len(prog[f]) \in Nat /\ pc[f] \in 1..Len(prog[f]) /\ Op(f) = prog[f][pc[f]]
      /\ prog[f] \in Seq(Constructors \cup {"lock", "unlock", "~Lock",
                                            "wait", "tryWait", "notify", "reset"})
  BY ProgramTypes, ScenariosAssumption DEF InCalls
<1>2. DOMAIN prog[f] = 1..Len(prog[f])
  BY <1>1, LenProperties
<1>3. PICK depth \in [0..Len(prog[f]) -> Nat] :
        Scoped(prog[f], depth) /\ Len(guards[f]) = depth[pc[f] - 1]
  BY DEF Nested
<1>4. /\ depth[pc[f]] = IF Op(f) \in Constructors THEN depth[pc[f] - 1] + 1
                        ELSE IF Op(f) = "~Lock" THEN depth[pc[f] - 1] - 1
                        ELSE depth[pc[f] - 1]
      /\ Op(f) \in {"lock", "unlock", "~Lock"} => depth[pc[f] - 1] > 0
  BY <1>1, <1>2, <1>3 DEF Scoped
<1>5. Len(guards'[f]) = depth[pc'[f] - 1]
  <2>1. pc'[f] - 1 = pc[f]
    BY <1>1
  <2> QED
    BY <2>1, <1>3, <1>4
<1> QED
  BY <1>3, <1>4, <1>5 DEF Nested

LEMMA NestedEnds ==
  ASSUME InCalls, NEW f \in Tasks, Nested(f), Op(f) = "return"
  PROVE  Len(guards[f]) = 0
<1>1. Len(prog[f]) \in Nat /\ pc[f] \in 1..(Len(prog[f]) + 1) /\ ~(pc[f] <= Len(prog[f]))
  BY ProgramTypes DEF Constructors
<1>2. pc[f] - 1 = Len(prog[f])
  BY <1>1
<1> QED
  BY <1>2 DEF Nested, Scoped

LEMMA HoldersFinite ==
  ASSUME NEW kind
  PROVE  IsFiniteSet(Holders(kind)) /\ Cardinality(Holders(kind)) \in Nat
<1>1. Holders(kind) \subseteq Tasks
  BY DEF Holders
<1> QED
  BY <1>1, SwitchAssumption, FS_Subset, FS_CardinalityType

(* The lock a running task takes or gives back: what changes is f's only.  *)
LEMMA HoldersChange ==
  ASSUME NEW f \in Tasks, NEW kind \in Constructors,
         \A g \in Tasks : g # f => guards'[g] = guards[g],
         \A k \in Constructors : ~Holds(f, k),
         \A k \in Constructors : Holds(f, k)' <=> k = kind
  PROVE  /\ f \notin Holders(kind) /\ Holders(kind)' = Holders(kind) \cup {f}
         /\ \A k \in Constructors : k # kind => Holders(k)' = Holders(k)
<1>1. \A g \in Tasks : \A k \in Constructors : g # f => (Holds(g, k)' <=> Holds(g, k))
  BY DEF Holds
<1> QED
  BY <1>1 DEF Holders

LEMMA HoldersChangeBack ==
  ASSUME NEW f \in Tasks, NEW kind \in Constructors,
         \A g \in Tasks : g # f => guards'[g] = guards[g],
         \A k \in Constructors : Holds(f, k) <=> k = kind,
         \A k \in Constructors : ~Holds(f, k)'
  PROVE  /\ f \in Holders(kind) /\ Holders(kind)' = Holders(kind) \ {f}
         /\ \A k \in Constructors : f \notin Holders(k)'
         /\ \A k \in Constructors : k # kind => Holders(k)' = Holders(k) /\ f \notin Holders(k)
<1>1. \A g \in Tasks : \A k \in Constructors : g # f => (Holds(g, k)' <=> Holds(g, k))
  BY DEF Holds
<1> QED
  BY <1>1 DEF Holders

LEMMA LockTaken ==
  ASSUME SwitchInv, LockTypes, Guarded, NEW t \in Threads, NEW f \in Tasks, exec[t] = f,
         NEW kind \in Constructors, DoLock(kind, t), UNCHANGED <<exec, state>>,
         \A g \in Tasks : g # f => guards'[g] = guards[g],
         \A k \in Constructors : ~Holds(f, k),
         Len(guards'[f]) = 1, guards'[f][1].kind = kind, guards'[f][1].locked
  PROVE  /\ Guarded' /\ excl' \in BOOLEAN
         /\ rw' \in [writer : Threads \cup {None}, readers : Nat]
<1>1. state[f] = "RUNNING" /\ None \notin Threads
  BY WhereTaskRuns, Stacks
<1>2. \A k \in Constructors : Holds(f, k)' <=> k = kind
  <2>1. guards'[f] # <<>>
    BY EmptySeq
  <2> QED
    BY <2>1 DEF Holds
<1>3. /\ f \notin Holders(kind) /\ Holders(kind)' = Holders(kind) \cup {f}
      /\ \A k \in Constructors : k # kind => Holders(k)' = Holders(k)
  BY <1>2, HoldersChange
<1>4. rw.writer # t
  BY <1>1, HoldersFinite DEF Guarded, Holders, Constructors
<1>5. \A g \in Tasks : /\ Len(guards'[g]) <= 1
                       /\ guards'[g] # <<>> /\ guards'[g][1].locked => state'[g] = "RUNNING"
  <2>1. state' = state /\ Len(guards'[f]) <= 1
    OBVIOUS
  <2>2. \A g \in Tasks : g # f =>
          /\ Len(guards'[g]) <= 1
          /\ guards'[g] # <<>> /\ guards'[g][1].locked => state'[g] = "RUNNING"
    BY <2>1 DEF Guarded
  <2> QED
    BY <1>1, <2>1, <2>2
<1>6. rw \in [writer : Threads \cup {None}, readers : Nat] /\ excl \in BOOLEAN
  BY DEF LockTypes
<1>7. CASE kind = "Lock"
  <2>1. ~excl /\ excl' = TRUE /\ rw' = rw
    BY <1>7 DEF DoLock, LockExclusive
  <2>2. Holders("Lock") = {} /\ Holders("Lock")' = {f}
    BY <1>3, <1>7, <2>1 DEF Guarded
  <2>3. Holders("ReadLock")' = Holders("ReadLock") /\ Holders("WriteLock")' = Holders("WriteLock")
    BY <1>3, <1>7 DEF Constructors
  <2> QED
    BY <1>5, <1>6, <2>1, <2>2, <2>3 DEF Guarded
<1>8. CASE kind = "ReadLock"
  <2>1. /\ rw.writer = None /\ rw' = [rw EXCEPT !.readers = rw.readers + 1] /\ excl' = excl
    BY <1>4, <1>8 DEF DoLock, rdlock
  <2>2. /\ rw' \in [writer : Threads \cup {None}, readers : Nat]
        /\ rw'.writer = None /\ rw'.readers = rw.readers + 1
    BY <1>6, <2>1
  <2>3. Holders("Lock")' = Holders("Lock") /\ Holders("WriteLock")' = Holders("WriteLock")
    BY <1>3, <1>8 DEF Constructors
  <2>4. Cardinality(Holders("ReadLock")') = rw'.readers
    BY <1>3, <1>8, <2>2, HoldersFinite, FS_AddElement DEF Guarded
  <2> QED
    BY <1>5, <1>6, <2>1, <2>2, <2>3, <2>4 DEF Guarded
<1>9. CASE kind = "WriteLock"
  <2>1. rw = NoLock /\ rw' = [rw EXCEPT !.writer = t] /\ excl' = excl
    BY <1>4, <1>9 DEF DoLock, wrlock
  <2>2. /\ rw' \in [writer : Threads \cup {None}, readers : Nat] /\ rw.writer = None
        /\ rw'.writer = t /\ rw'.readers = 0 /\ rw.readers = 0
    BY <1>6, <2>1 DEF NoLock
  <2>3. Holders("Lock")' = Holders("Lock") /\ Holders("ReadLock")' = Holders("ReadLock")
    BY <1>3, <1>9 DEF Constructors
  <2>4. Holders("WriteLock")' = {f}
    BY <1>3, <1>9, <2>2 DEF Guarded
  <2> QED
    BY <1>1, <1>5, <1>6, <2>1, <2>2, <2>3, <2>4 DEF Guarded
<1> QED
  BY <1>7, <1>8, <1>9 DEF Constructors

LEMMA LockGiven ==
  ASSUME SwitchInv, LockTypes, Guarded, NEW t \in Threads, NEW f \in Tasks, exec[t] = f,
         NEW kind \in Constructors, DoUnlock(kind, t), UNCHANGED <<exec, state>>,
         \A g \in Tasks : g # f => guards'[g] = guards[g],
         Holds(f, kind),
         Len(guards'[f]) <= 1, guards'[f] # <<>> => ~guards'[f][1].locked
  PROVE  /\ Guarded' /\ excl' \in BOOLEAN
         /\ rw' \in [writer : Threads \cup {None}, readers : Nat]
<1>1. None \notin Threads
  BY Stacks
<1>2. \A k \in Constructors : (Holds(f, k) <=> k = kind) /\ ~Holds(f, k)'
  BY DEF Holds
<1>3. /\ f \in Holders(kind) /\ Holders(kind)' = Holders(kind) \ {f}
      /\ \A k \in Constructors : k # kind => Holders(k)' = Holders(k) /\ f \notin Holders(k)
  BY <1>2, HoldersChangeBack
<1>4. \A s \in Threads : exec[s] = f => s = t
  BY WhereTaskRuns
<1>5. \A g \in Tasks : /\ Len(guards'[g]) <= 1
                       /\ guards'[g] # <<>> /\ guards'[g][1].locked => state'[g] = "RUNNING"
  BY DEF Guarded
<1>6. rw \in [writer : Threads \cup {None}, readers : Nat] /\ excl \in BOOLEAN
  BY DEF LockTypes
<1>7. CASE kind = "Lock"
  <2>1. excl' = FALSE /\ rw' = rw
    BY <1>7 DEF DoUnlock, UnlockExclusive
  <2>2. Holders("Lock")' = {}
    BY <1>3, <1>7 DEF Guarded
  <2>3. Holders("ReadLock")' = Holders("ReadLock") /\ Holders("WriteLock")' = Holders("WriteLock")
    BY <1>3, <1>7 DEF Constructors
  <2> QED
    BY <1>5, <1>6, <2>1, <2>2, <2>3 DEF Guarded
<1>8. CASE kind = "ReadLock"
  <2>1. rw.writer # t
    BY <1>1, <1>3, <1>8 DEF Guarded, Constructors
  <2>2. rw.readers > 0 /\ Cardinality(Holders("ReadLock")') = rw.readers - 1
    <3>1. Cardinality(Holders("ReadLock")') = Cardinality(Holders("ReadLock")) - 1
          /\ Cardinality(Holders("ReadLock")) # 0
      BY <1>3, <1>8, HoldersFinite, FS_RemoveElement, FS_EmptySet
    <3> QED
      BY <3>1, <1>6 DEF Guarded
  <2>3. rw' = [rw EXCEPT !.readers = rw.readers - 1] /\ excl' = excl
    BY <1>8, <2>1, <2>2 DEF DoUnlock, unlock
  <2>4. /\ rw' \in [writer : Threads \cup {None}, readers : Nat]
        /\ rw'.writer = rw.writer /\ rw'.readers = rw.readers - 1
    BY <1>6, <2>2, <2>3
  <2>5. Holders("Lock")' = Holders("Lock") /\ Holders("WriteLock")' = Holders("WriteLock")
    BY <1>3, <1>8 DEF Constructors
  <2>6. rw.writer = None
    BY <2>2, <1>6 DEF Guarded
  <2> QED
    BY <1>5, <1>6, <2>2, <2>3, <2>4, <2>5, <2>6 DEF Guarded
<1>9. CASE kind = "WriteLock"
  <2>1. rw.writer = t /\ Holders("WriteLock") = {f} /\ rw.readers = 0
    BY <1>3, <1>4, <1>6, <1>9 DEF Guarded
  <2>2. rw' = [rw EXCEPT !.writer = None] /\ excl' = excl
    BY <1>9, <2>1 DEF DoUnlock, unlock
  <2>3. /\ rw' \in [writer : Threads \cup {None}, readers : Nat]
        /\ rw'.writer = None /\ rw'.readers = rw.readers
    BY <1>6, <2>2
  <2>4. Holders("Lock")' = Holders("Lock") /\ Holders("ReadLock")' = Holders("ReadLock")
        /\ Holders("WriteLock")' = {}
    BY <1>3, <1>9, <2>1 DEF Constructors
  <2> QED
    BY <1>5, <1>6, <2>2, <2>3, <2>4 DEF Guarded
<1> QED
  BY <1>7, <1>8, <1>9 DEF Constructors

(* A lock that nobody touches, while no task that holds it leaves.         *)
TasksStay ==
  /\ \A t \in Threads, f \in Tasks : exec[t] = f => exec'[t] = f
  /\ \A f \in Tasks : state[f] = "RUNNING" => state'[f] = "RUNNING"

LEMMA GuardedFrame ==
  ASSUME LockTypes, Guarded, UNCHANGED <<guards, excl, rw>>,
         \A f \in Tasks : guards[f] # <<>> /\ guards[f][1].locked /\ state[f] = "RUNNING" =>
                            /\ state'[f] = "RUNNING"
                            /\ \A t \in Threads : exec[t] = f => exec'[t] = f
  PROVE  Guarded'
<1>1. \A k \in Constructors : Holders(k)' = Holders(k)
  BY DEF Holders, Holds
<1>2. /\ Holders("Lock")' = Holders("Lock") /\ Holders("ReadLock")' = Holders("ReadLock")
      /\ Holders("WriteLock")' = Holders("WriteLock")
  BY <1>1 DEF Constructors
<1>3. ASSUME rw.writer # None PROVE exec'[rw.writer] = exec[rw.writer]
  <2>1. exec[rw.writer] \in Holders("WriteLock") /\ rw.writer \in Threads
    BY <1>3 DEF Guarded, LockTypes
  <2> QED
    BY <2>1 DEF Holders, Holds, Guarded
<1>4. \A f \in Tasks : /\ Len(guards'[f]) <= 1
                       /\ guards'[f] # <<>> /\ guards'[f][1].locked => state'[f] = "RUNNING"
  BY DEF Guarded
<1> QED
  BY <1>2, <1>3, <1>4 DEF Guarded

LEMMA LocksStay ==
  ASSUME LockInv, UNCHANGED <<prog, pc, lockVars>>, TasksStay
  PROVE  LockInv'
<1>1. UNCHANGED <<guards, excl, rw, misused>>
  BY DEF lockVars
<1>2. LockTypes'
  BY <1>1 DEF LockInv, LockTypes
<1>3. \A f \in Tasks : Nested(f)'
  BY <1>1 DEF LockInv, Nested
<1>4. Guarded => Guarded'
  BY <1>1, GuardedFrame DEF LockInv, TasksStay
<1> QED
  BY <1>1, <1>2, <1>3, <1>4 DEF LockInv

LEMMA ThreadKeepsLocks ==
  ASSUME SwitchInv, LockInv, NEW t \in Threads, ThreadStep(t), Untouched
  PROVE  LockInv'
<1>1. ASSUME NEW f \in Tasks PROVE exec[t] # f
  <2>1. CASE Enter(t)
    <3>1. Where(t) = "enter"
      BY <2>1 DEF Enter, Where
    <3> QED
      BY <3>1, WhereTaskRuns
  <2>2. CASE Take(t) \/ RunTask(t) \/ Done(t) \/ ResumeIdle(t) \/ Leave(t)
    BY <2>2, Stacks DEF Take, RunTask, Done, ResumeIdle, Leave, On
  <2>3. CASE Idle(t)
    BY <2>3, Stacks DEF Idle, On
  <2> QED
    BY <2>1, <2>2, <2>3 DEF ThreadStep
<1>2. \A s \in Threads : s # t => exec'[s] = exec[s]
  <2>1. \E g : exec' = [exec EXCEPT ![t] = g]
    <3>1. exec = [exec EXCEPT ![t] = exec[t]]
      BY DEF SwitchInv, SwitchTypes
    <3>2. CASE Enter(t)
      BY <3>1, <3>2 DEF Enter
    <3>3. CASE Take(t) \/ Done(t)
      BY <3>1, <3>3 DEF Take, Done, cpu
    <3>4. CASE RunTask(t)
      BY <3>1, <3>4 DEF RunTask, resume, swapcontext, cpu
    <3>5. CASE ResumeIdle(t) \/ Idle(t)
      BY <3>1, <3>5
         DEF ResumeIdle, Idle, resume, yieldToReady, MainFuncEnds, yield, swapcontext, cpu
    <3>6. CASE Leave(t)
      BY <3>1, <3>6 DEF Leave, MainFuncEnds, yield, swapcontext
    <3> QED
      BY <3>2, <3>3, <3>4, <3>5, <3>6 DEF ThreadStep
  <2> QED
    BY <2>1 DEF SwitchInv, SwitchTypes
<1>3. ASSUME NEW f \in Tasks, state[f] = "RUNNING" PROVE state'[f] = "RUNNING"
  <2>1. CASE Enter(t)
    BY <2>1, <1>3, Stacks DEF Enter, SwitchInv, SwitchTypes
  <2>2. CASE Take(t) \/ Done(t)
    BY <2>2, <1>3 DEF Take, Done, cpu
  <2>3. CASE RunTask(t)
    BY <2>3, <1>3, Stacks DEF RunTask, resume, cpu, SwitchInv, SwitchTypes
  <2>4. CASE ResumeIdle(t)
    BY <2>4, <1>3, Stacks DEF ResumeIdle, resume, cpu, SwitchInv, SwitchTypes
  <2>5. CASE Idle(t)
    <3>1. tFiber[t] = idle(t)
      BY <2>5, Stacks DEF Idle, On, SwitchInv, Placed, Place
    <3> QED
      BY <2>5, <3>1, <1>3, Stacks
         DEF Idle, yieldToReady, MainFuncEnds, yield, SwitchInv, SwitchTypes
  <2>6. CASE Leave(t)
    <3>1. tFiber[t] = RunStack(t)
      BY <2>6, Stacks DEF Leave, On, SwitchInv, Placed, Place
    <3> QED
      BY <2>6, <3>1, <1>3, Stacks DEF Leave, MainFuncEnds, yield, SwitchInv, SwitchTypes
  <2> QED
    BY <2>1, <2>2, <2>3, <2>4, <2>5, <2>6 DEF ThreadStep
<1>4. TasksStay
  BY <1>1, <1>2, <1>3 DEF TasksStay
<1> QED
  BY <1>4, LocksStay DEF Untouched

LEMMA OutsideKeepsLocks ==
  ASSUME SwitchInv, LockInv, (\E w \in Workers : StartStep(w)) \/ Stop \/ Join, Untouched
  PROVE  LockInv'
<1>1. CASE UNCHANGED cpu
  BY <1>1, LocksStay DEF TasksStay, cpu, Untouched
<1>2. CASE exec[Root] = main(Root) /\ resume(Root, Sched)
  <2>1. TasksStay
    BY <1>2, Stacks DEF TasksStay, resume, swapcontext, cpu, SwitchInv, SwitchTypes
  <2> QED
    BY <2>1, LocksStay DEF Untouched
<1> QED
  BY <1>1, <1>2 DEF StartStep, Create, SetId, Signal, Started, Stop, Join, On

(* A call of the semaphore, or the last call's return.                     *)
LEMMA CallKeepsLocks ==
  ASSUME SwitchInv, InCalls, pc \in [Tasks -> Nat], LockInv, NEW f \in Tasks,
         Op(f) \in {"wait", "tryWait", "notify", "reset"}, Next_(f),
         UNCHANGED <<switchVars, prog, lockVars>> \/
           (UNCHANGED <<cpu, prog, lockVars>> /\ Op(f) = "notify")
  PROVE  LockInv'
<1>1. UNCHANGED <<exec, state, prog, guards, excl, rw, misused>>
  BY DEF switchVars, cpu, lockVars
<1>2. pc'[f] = pc[f] + 1 /\ \A g \in Tasks : g # f => pc'[g] = pc[g]
  BY DEF Next_
<1>3. LockTypes'
  BY <1>1 DEF LockInv, LockTypes
<1>4. ASSUME NEW g \in Tasks PROVE Nested(g)'
  <2>1. CASE g = f
    <3>1. Len(guards[f]) \in Nat
      BY LenProperties DEF LockInv, LockTypes, Guards
    <3>2. Op(f) \notin Constructors /\ Op(f) # "~Lock" /\ Op(f) # "return"
      BY DEF Constructors
    <3> QED
      BY <2>1, <3>1, <3>2, <1>1, <1>2, NestedAdvance DEF LockInv
  <2>2. CASE g # f
    BY <2>2, <1>1, <1>2 DEF LockInv, Nested
  <2> QED
    BY <2>1, <2>2
<1>5. Guarded => Guarded'
  BY <1>1, GuardedFrame DEF LockInv
<1> QED
  BY <1>1, <1>3, <1>4, <1>5 DEF LockInv

LEMMA OthersStayNested ==
  ASSUME LockInv, NEW f \in Tasks, prog' = prog, Next_(f),
         \A g \in Tasks : g # f => guards'[g] = guards[g]
  PROVE  \A g \in Tasks : g # f => Nested(g)'
BY DEF LockInv, Nested, Next_

(* A constructor takes the lock, and waits until it can.                   *)
LEMMA ConstructKeepsLocks ==
  ASSUME SwitchInv, InCalls, pc \in [Tasks -> Nat], LockInv,
         NEW t \in Threads, NEW f \in Tasks, NEW kind \in Constructors, Construct(t, f, kind)
  PROVE  LockInv'
<1>1. /\ exec[t] = f /\ Op(f) = kind /\ Next_(f) /\ DoLock(kind, t)
      /\ guards' = [guards EXCEPT ![f] = Append(guards[f], [kind |-> kind, locked |-> TRUE])]
      /\ misused' = (misused \/ guards[f] # <<>>)
      /\ UNCHANGED <<switchVars, prog>>
  BY DEF Construct, Ready, On
<1>2. [kind |-> kind, locked |-> TRUE] \in [kind : Constructors, locked : BOOLEAN]
  OBVIOUS
<1>3. /\ guards[f] \in Guards /\ Len(guards[f]) \in Nat /\ guards' \in [Tasks -> Guards]
      /\ Len(guards'[f]) = Len(guards[f]) + 1
      /\ guards'[f][Len(guards[f]) + 1] = [kind |-> kind, locked |-> TRUE]
      /\ \A g \in Tasks : g # f => guards'[g] = guards[g]
  <2> DEFINE new == Append(guards[f], [kind |-> kind, locked |-> TRUE])
  <2>1. /\ guards[f] \in Guards /\ Len(guards[f]) \in Nat /\ new \in Guards
        /\ Len(new) = Len(guards[f]) + 1
        /\ new[Len(guards[f]) + 1] = [kind |-> kind, locked |-> TRUE]
    <3> DEFINE G == [kind : Constructors, locked : BOOLEAN]
               h == [kind |-> kind, locked |-> TRUE]
    <3>1. guards[f] \in Seq(G) /\ h \in G /\ Guards = Seq(G)
      BY DEF LockInv, LockTypes, Guards
    <3> HIDE DEF G, h
    <3>2. /\ Len(guards[f]) \in Nat /\ Append(guards[f], h) \in Seq(G)
          /\ Len(Append(guards[f], h)) = Len(guards[f]) + 1
          /\ Append(guards[f], h)[Len(guards[f]) + 1] = h
      BY <3>1, AppendProperties, LenProperties
    <3> QED
      BY <3>1, <3>2 DEF h
  <2>2. guards' = [guards EXCEPT ![f] = new]
    BY <1>1
  <2> HIDE DEF new
  <2> QED
    BY <2>1, <2>2 DEF LockInv, LockTypes
<1>4. pc'[f] = pc[f] + 1 /\ Op(f) # "return" /\ Op(f) \in Constructors
  BY <1>1 DEF Next_, Constructors
<1>5. \A g \in Tasks : Nested(g)'
  BY <1>1, <1>3, <1>4, NestedAdvance, OthersStayNested DEF LockInv
<1>6. /\ excl' \in BOOLEAN
      /\ rw' \in [writer : Threads \cup {None}, readers : Nat]
      /\ misused' \/ Guarded'
  <2>1. excl' \in BOOLEAN
    BY <1>1 DEF DoLock, LockExclusive, rdlock, wrlock, LockInv, LockTypes
  <2>2. rw' \in [writer : Threads \cup {None}, readers : Nat]
    BY <1>1 DEF DoLock, LockExclusive, rdlock, wrlock, LockInv, LockTypes
  <2>3. ASSUME ~misused' PROVE Guarded'
    <3>1. Guarded /\ guards[f] = <<>>
      BY <2>3, <1>1 DEF LockInv
    <3>2. Len(guards'[f]) = 1 /\ guards'[f][1] = [kind |-> kind, locked |-> TRUE]
      BY <3>1, <1>3, EmptySeq
    <3>3. guards'[f][1].kind = kind /\ guards'[f][1].locked
      BY <3>2
    <3>4. \A k \in Constructors : ~Holds(f, k)
      BY <3>1 DEF Holds
    <3>5. UNCHANGED <<exec, state>>
      BY <1>1 DEF switchVars, cpu
    <3> QED
      BY <1>1, <1>3, <3>1, <3>2, <3>3, <3>4, <3>5, LockTaken DEF LockInv
  <2> QED
    BY <2>1, <2>2, <2>3
<1>7. LockTypes'
  BY <1>3, <1>6 DEF LockTypes
<1> QED
  BY <1>5, <1>6, <1>7 DEF LockInv

(* The methods of the last guard.                                          *)
LEMMA SetLockedDoes ==
  ASSUME LockTypes, NEW f \in Tasks, Len(guards[f]) > 0, NEW b \in BOOLEAN, SetLocked(f, b)
  PROVE  /\ guards' \in [Tasks -> Guards] /\ Len(guards'[f]) = Len(guards[f])
         /\ guards'[f][Len(guards[f])].locked = b
         /\ guards'[f][Len(guards[f])].kind = guards[f][Len(guards[f])].kind
         /\ \A g \in Tasks : g # f => guards'[g] = guards[g]
<1> DEFINE G == [kind : Constructors, locked : BOOLEAN]
           n == Len(guards[f])
           new == [guards[f] EXCEPT ![n] = [guards[f][n] EXCEPT !.locked = b]]
<1>1. guards[f] \in Seq(G) /\ Guards = Seq(G)
  BY DEF LockTypes, Guards
<1>2. n \in 1..n /\ guards[f][n] \in G /\ guards[f] \in [1..n -> G]
  <2> HIDE DEF G
  <2> QED
    BY <1>1, LenProperties, ElementOfSeq
<1>3. /\ [guards[f][n] EXCEPT !.locked = b] \in G
      /\ [guards[f][n] EXCEPT !.locked = b].locked = b
      /\ [guards[f][n] EXCEPT !.locked = b].kind = guards[f][n].kind
  BY <1>2
<1>4. new \in Seq(G) /\ Len(new) = n /\ new[n] = [guards[f][n] EXCEPT !.locked = b]
  BY <1>1, <1>2, <1>3, ExceptSeq
<1>5. guards' = [guards EXCEPT ![f] = new]
  BY DEF SetLocked
<1>6. guards'[f] = new /\ guards' \in [Tasks -> Guards]
      /\ \A g \in Tasks : g # f => guards'[g] = guards[g]
  <2> HIDE DEF new, G
  <2> QED
    BY <1>1, <1>4, <1>5 DEF LockTypes
<1> QED
  BY <1>3, <1>4, <1>6

LEMMA FrontDoes ==
  ASSUME LockTypes, NEW f \in Tasks, Len(guards[f]) > 0, guards' = [guards EXCEPT ![f] = Front(@)]
  PROVE  /\ guards' \in [Tasks -> Guards] /\ Len(guards'[f]) = Len(guards[f]) - 1
         /\ \A g \in Tasks : g # f => guards'[g] = guards[g]
<1> DEFINE G == [kind : Constructors, locked : BOOLEAN]
           n == Len(guards[f])
           new == Front(guards[f])
<1>1. guards[f] \in Seq(G) /\ Guards = Seq(G)
  BY DEF LockTypes, Guards
<1>2. n \in Nat \ {0} /\ \A i \in 1..n : guards[f][i] \in G
  <2> HIDE DEF G
  <2> QED
    BY <1>1, LenProperties, ElementOfSeq
<1>3. new = [i \in 1..(n - 1) |-> guards[f][i]]
  BY DEF Front
<1>4. new \in Seq(G) /\ Len(new) = n - 1
  <2>1. n - 1 \in Nat /\ \A i \in 1..(n - 1) : guards[f][i] \in G
    BY <1>2
  <2> HIDE DEF G, n
  <2>2. new \in [1..(n - 1) -> G]
    BY <1>3, <2>1
  <2> QED
    BY <2>1, <2>2, <1>3, SeqDef, LenProperties
<1>5. guards' = [guards EXCEPT ![f] = new]
  OBVIOUS
<1> HIDE DEF new, G
<1> QED
  BY <1>1, <1>4, <1>5 DEF LockTypes

LEMMA OneLong ==
  ASSUME NEW G, NEW s \in Seq(G), Len(s) > 0, Len(s) <= 1
  PROVE  Len(s) = 1 /\ s # <<>>
<1>1. Len(s) \in Nat /\ (Len(s) # 0 => s # <<>>)
  BY LenProperties, EmptySeq
<1> QED
  BY <1>1

LEMMA MethodKeepsLocks ==
  ASSUME SwitchInv, InCalls, pc \in [Tasks -> Nat], LockInv,
         NEW t \in Threads, NEW f \in Tasks, NEW kind \in Constructors,
         GuardLock(t, f, kind) \/ GuardUnlock(t, f, kind) \/ Destruct(t, f, kind)
  PROVE  LockInv'
<1> DEFINE last == guards[f][Len(guards[f])]
<1>1. /\ exec[t] = f /\ Op(f) \in {"lock", "unlock", "~Lock"} /\ Next_(f)
      /\ last.kind = kind /\ UNCHANGED <<switchVars, prog, misused>>
      /\ Op(f) = "~Lock" <=> Destruct(t, f, kind)
  BY DEF GuardLock, GuardUnlock, Destruct, Method, Ready, On, Guard, Last
<1>2. /\ guards \in [Tasks -> Guards] /\ LockTypes /\ Len(guards[f]) \in Nat
      /\ UNCHANGED <<exec, state>> /\ pc'[f] = pc[f] + 1 /\ Op(f) # "return"
      /\ Op(f) \notin Constructors
  <2>1. guards[f] \in Guards
    BY DEF LockInv, LockTypes
  <2> QED
    BY <2>1, <1>1, LenProperties
       DEF LockInv, LockTypes, Guards, switchVars, cpu, Next_, Constructors
<1>3. Len(guards[f]) > 0
  <2>1. PICK depth \in [0..Len(prog[f]) -> Nat] :
          Scoped(prog[f], depth) /\ Len(guards[f]) = depth[pc[f] - 1]
    BY DEF LockInv, Nested
  <2>2. /\ pc[f] \in 1..Len(prog[f]) /\ Op(f) = prog[f][pc[f]]
        /\ DOMAIN prog[f] = 1..Len(prog[f])
    BY <1>2, ProgramTypes, ScenariosAssumption, LenProperties DEF InCalls
  <2> QED
    BY <1>1, <2>1, <2>2 DEF Scoped
<1>4. last.locked \in BOOLEAN
  <2> DEFINE G == [kind : Constructors, locked : BOOLEAN]
  <2>1. guards[f] \in Seq(G) /\ Len(guards[f]) \in 1..Len(guards[f])
    <3>1. Guards = Seq(G) /\ guards[f] \in Guards
      BY <1>2 DEF Guards
    <3> HIDE DEF G
    <3> QED
      BY <3>1, <1>2, <1>3
  <2>2. last \in G
    <3> HIDE DEF G
    <3> QED
      BY <2>1, ElementOfSeq
  <2> QED
    BY <2>2
<1> HIDE DEF last
<1>5. \/ /\ UNCHANGED <<excl, rw, guards>> /\ ~Destruct(t, f, kind)
      \/ /\ DoLock(kind, t) /\ ~last.locked /\ SetLocked(f, TRUE) /\ ~Destruct(t, f, kind)
      \/ /\ DoUnlock(kind, t) /\ last.locked /\ SetLocked(f, FALSE) /\ ~Destruct(t, f, kind)
      \/ /\ Destruct(t, f, kind) /\ guards' = [guards EXCEPT ![f] = Front(@)]
         /\ IF last.locked THEN DoUnlock(kind, t) ELSE UNCHANGED <<excl, rw>>
  <2>1. CASE Destruct(t, f, kind)
    BY <2>1 DEF Destruct, Guard, Last, last
  <2>2. CASE GuardLock(t, f, kind) /\ ~Destruct(t, f, kind)
    BY <2>2 DEF GuardLock, Guard, Last, last
  <2>3. CASE GuardUnlock(t, f, kind) /\ ~Destruct(t, f, kind)
    BY <2>3 DEF GuardUnlock, Guard, Last, last
  <2> QED
    BY <2>1, <2>2, <2>3
<1>6. /\ guards' \in [Tasks -> Guards] /\ \A g \in Tasks : g # f => guards'[g] = guards[g]
      /\ Len(guards'[f]) = IF Op(f) = "~Lock" THEN Len(guards[f]) - 1 ELSE Len(guards[f])
  <2>1. ASSUME NEW b \in BOOLEAN, SetLocked(f, b), ~Destruct(t, f, kind)
        PROVE  /\ guards' \in [Tasks -> Guards] /\ Len(guards'[f]) = Len(guards[f])
               /\ \A g \in Tasks : g # f => guards'[g] = guards[g]
    BY <1>2, <1>3, <2>1, SetLockedDoes
  <2>2. ASSUME Destruct(t, f, kind)
        PROVE  /\ guards' \in [Tasks -> Guards] /\ Len(guards'[f]) = Len(guards[f]) - 1
               /\ \A g \in Tasks : g # f => guards'[g] = guards[g]
    BY <1>2, <1>3, <2>2, FrontDoes DEF Destruct
  <2> QED
    BY <1>1, <1>2, <1>5, <2>1, <2>2
<1>7. \A g \in Tasks : Nested(g)'
  BY <1>1, <1>2, <1>6, NestedAdvance, OthersStayNested DEF LockInv
<1>8. excl' \in BOOLEAN /\ rw' \in [writer : Threads \cup {None}, readers : Nat]
  <2>1. excl \in BOOLEAN /\ rw \in [writer : Threads \cup {None}, readers : Nat] /\ t \in Threads
    BY <1>2 DEF LockTypes
  <2>2. CASE UNCHANGED <<excl, rw>>
    BY <2>1, <2>2
  <2>3. CASE DoLock(kind, t)
    <3>1. excl' \in BOOLEAN
      BY <2>1, <2>3 DEF DoLock, LockExclusive, rdlock, wrlock
    <3>2. rw' \in [writer : Threads \cup {None}, readers : Nat]
      BY <2>1, <2>3 DEF DoLock, LockExclusive, rdlock, wrlock
    <3> QED
      BY <3>1, <3>2
  <2>4. CASE DoUnlock(kind, t)
    <3>1. excl' \in BOOLEAN
      BY <2>1, <2>4 DEF DoUnlock, UnlockExclusive, unlock
    <3>2. ASSUME unlock(t) PROVE rw' \in [writer : Threads \cup {None}, readers : Nat]
      <4>1. CASE rw.writer = t
        BY <2>1, <3>2, <4>1 DEF unlock
      <4>2. CASE rw.writer # t /\ rw.readers > 0
        <5>1. rw' = [rw EXCEPT !.readers = rw.readers - 1] /\ rw.readers - 1 \in Nat
          BY <2>1, <3>2, <4>2 DEF unlock
        <5> QED
          BY <2>1, <5>1
      <4>3. CASE rw.writer # t /\ ~(rw.readers > 0)
        BY <2>1, <3>2, <4>3 DEF unlock, NoLock
      <4> QED
        BY <4>1, <4>2, <4>3
    <3> QED
      BY <2>1, <2>4, <3>1, <3>2 DEF DoUnlock, UnlockExclusive
  <2> QED
    BY <1>5, <2>2, <2>3, <2>4
<1>9. ASSUME Guarded PROVE Guarded'
  <2>1. Len(guards[f]) = 1 /\ last = guards[f][1] /\ guards[f] # <<>>
    <3>1. Len(guards[f]) <= 1
      BY <1>9, Zenon DEF Guarded
    <3>2. guards[f] \in Guards
      BY <1>2
    <3>3. Len(guards[f]) = 1 /\ guards[f] # <<>>
      BY <3>1, <3>2, <1>3, OneLong DEF Guards
    <3> QED
      BY <3>3 DEF last
  <2>2. \A k \in Constructors : Holds(f, k) <=> k = kind /\ last.locked
    BY <2>1, <1>1 DEF Holds, last
  <2>3. CASE UNCHANGED <<excl, rw, guards>>
    BY <2>3, <1>2, <1>9, GuardedFrame
  <2>4. CASE DoLock(kind, t) /\ ~last.locked /\ SetLocked(f, TRUE)
    <3>1. Len(guards'[f]) = 1 /\ guards'[f][1].kind = kind /\ guards'[f][1].locked
      BY <2>1, <2>4, <1>1, <1>2, <1>3, SetLockedDoes DEF last
    <3> QED
      BY <3>1, <2>2, <2>4, <1>1, <1>2, <1>6, <1>9, LockTaken
  <2>5. CASE DoUnlock(kind, t) /\ last.locked /\ SetLocked(f, FALSE)
    <3>1. Len(guards'[f]) = 1 /\ guards'[f][1].locked = FALSE
      BY <2>1, <2>5, <1>2, <1>3, SetLockedDoes DEF last
    <3> QED
      <4>1. Holds(f, kind) /\ Len(guards'[f]) <= 1 /\ (guards'[f] # <<>> => ~guards'[f][1].locked)
        BY <3>1, <2>2, <2>5
      <4> QED
        BY <4>1, <2>5, <1>1, <1>2, <1>6, <1>9, LockGiven
  <2>6. CASE Destruct(t, f, kind)
    <3>1. Len(guards'[f]) = 0 /\ guards'[f] = <<>>
      BY <2>1, <2>6, <1>1, <1>6, EmptySeq DEF Guards
    <3>2. CASE last.locked
      BY <3>1, <3>2, <2>2, <2>6, <1>1, <1>2, <1>5, <1>6, <1>9, LockGiven
    <3>3. CASE ~last.locked
      <4>1. \A k \in Constructors : Holders(k)' = Holders(k)
        <5>1. \A g \in Tasks : \A k \in Constructors : Holds(g, k)' <=> Holds(g, k)
          BY <3>1, <3>3, <2>2, <1>6 DEF Holds
        <5> QED
          BY <5>1 DEF Holders
      <4>2. UNCHANGED <<excl, rw, exec, state>>
        BY <3>3, <2>6, <1>2, <1>5
      <4>3. \A g \in Tasks : /\ Len(guards'[g]) <= 1
                             /\ guards'[g] # <<>> /\ guards'[g][1].locked => state'[g] = "RUNNING"
        BY <3>1, <4>2, <1>6, <1>9 DEF Guarded
      <4> QED
        BY <4>1, <4>2, <4>3, <1>9 DEF Guarded, Constructors
    <3> QED
      BY <3>2, <3>3, <1>4
  <2> QED
    BY <2>3, <2>4, <2>5, <2>6, <1>5
<1>10. LockTypes'
  BY <1>6, <1>8 DEF LockTypes
<1> QED
  BY <1>1, <1>7, <1>9, <1>10 DEF LockInv

(* A fiber that leaves its thread has no locked guard, or one is misused.  *)
LEMMA YieldKeepsLocks ==
  ASSUME SwitchInv, LockInv, NEW t \in Threads, NEW f \in Tasks, On(t, f),
         NEW last \in {"READY", "TERM"}, yield(t, tFiber[t], last),
         UNCHANGED <<mutex, at, task, pool, starters, aborted, late>>,
         UNCHANGED <<prog, pc, guards, excl, rw>>, misused => misused',
         misused' \/ guards[f] = <<>> \/ ~guards[f][1].locked
  PROVE  LockInv'
<1>1. Moves(t, RunStack(t)) /\ state' = [state EXCEPT ![f] = last] /\ exec[t] = f
  BY TaskYields DEF On
<1>2. /\ \A s \in Threads : s # t => exec'[s] = exec[s]
      /\ \A g \in Tasks : g # f => state'[g] = state[g]
  BY <1>1, Stacks DEF Moves, SwitchInv, SwitchTypes
<1>3. LockTypes' /\ \A g \in Tasks : Nested(g)'
  BY DEF LockInv, LockTypes, Nested
<1>4. ASSUME ~misused' PROVE Guarded'
  <2>1. Guarded /\ LockTypes
    BY <1>4 DEF LockInv
  <2>2. ASSUME NEW g \in Tasks, guards[g] # <<>> /\ guards[g][1].locked, state[g] = "RUNNING"
        PROVE  state'[g] = "RUNNING" /\ \A s \in Threads : exec[s] = g => exec'[s] = g
    BY <1>1, <1>2, <1>4, <2>2
  <2> QED
    BY <2>1, <2>2, GuardedFrame
<1> QED
  BY <1>3, <1>4 DEF LockInv

LEMMA ParkKeepsLocks ==
  ASSUME SwitchInv, LockInv, NEW t \in Threads, NEW f \in Tasks, Park(t, f)
  PROVE  LockInv'
<1>1. /\ On(t, f) /\ yield(t, tFiber[t], "READY")
      /\ UNCHANGED <<mutex, at, task, pool, starters, aborted, late>>
      /\ UNCHANGED <<prog, pc, guards, excl, rw>>
  BY DEF Park, yieldToReady
<1>2. misused' \/ guards[f] = <<>> \/ ~guards[f][1].locked
  <2>1. ASSUME guards[f] # <<>>, guards[f][1].locked PROVE \E i \in DOMAIN guards[f] : guards[f][i].locked
    <3>1. guards[f] \in Guards
      BY DEF LockInv, LockTypes
    <3>2. 1 \in DOMAIN guards[f]
      BY <2>1, <3>1, EmptySeq, LenProperties DEF Guards
    <3> QED
      BY <2>1, <3>2
  <2> QED
    BY <2>1 DEF Park
<1>3. misused => misused'
  BY Zenon DEF Park
<1> QED
  BY <1>1, <1>2, <1>3, YieldKeepsLocks

LEMMA ReturnKeepsLocks ==
  ASSUME SwitchInv, InCalls, LockInv, NEW t \in Threads, NEW f \in Tasks, Return(t, f)
  PROVE  LockInv'
<1>1. /\ On(t, f) /\ yield(t, tFiber[t], "TERM") /\ Op(f) = "return"
      /\ UNCHANGED <<mutex, at, task, pool, starters, aborted, late>>
      /\ UNCHANGED <<prog, pc, guards, excl, rw, misused>>
  BY DEF Return, MainFuncEnds, Ready, lockVars
<1>2. guards[f] = <<>>
  <2>1. guards[f] \in Guards /\ Len(guards[f]) = 0
    BY <1>1, NestedEnds DEF LockInv, LockTypes
  <2> QED
    BY <2>1, EmptySeq DEF Guards
<1> QED
  BY <1>1, <1>2, YieldKeepsLocks

LEMMA LocksStart ==
  ASSUME Init
  PROVE  LockInv
<1>1. /\ excl = FALSE /\ rw = NoLock /\ guards = [f \in Tasks |-> <<>>]
      /\ prog \in Scenarios /\ \A f \in Tasks : pc[f] = 1
  BY DEF Init
<1>2. LockTypes
  <2>1. <<>> \in Guards
    BY DEF Guards
  <2> QED
    BY <1>1, <2>1 DEF LockTypes, NoLock
<1>3. ASSUME NEW f \in Tasks PROVE Nested(f)
  <2>1. PICK depth \in [0..Len(prog[f]) -> 0..Len(prog[f])] : Scoped(prog[f], depth)
    BY <1>1, ScenariosAssumption
  <2>2. Len(prog[f]) \in Nat
    BY <1>1, ScenariosAssumption, LenProperties
  <2>3. depth \in [0..Len(prog[f]) -> Nat]
    BY <2>1, <2>2
  <2>4. Len(guards[f]) = depth[pc[f] - 1]
    BY <1>1, <2>1, EmptySeq DEF Scoped
  <2> QED
    BY <2>1, <2>3, <2>4 DEF Nested
<1>4. Guarded
  <2>1. \A f \in Tasks : guards[f] = <<>> /\ Len(guards[f]) = 0
    BY <1>1, EmptySeq
  <2>2. \A k \in Constructors : Holders(k) = {}
    BY <2>1 DEF Holders, Holds
  <2>3. rw.writer = None /\ rw.readers = 0 /\ ~excl
    BY <1>1 DEF NoLock
  <2> QED
    <3>1. Holders("Lock") = {} /\ Holders("ReadLock") = {} /\ Holders("WriteLock") = {}
      BY <2>2 DEF Constructors
    <3>2. Cardinality(Holders("ReadLock")) = 0
      BY <3>1, FS_EmptySet
    <3>3. excl <=> Holders("Lock") # {}
      BY <2>3, <3>1
    <3>4. \A f \in Tasks : Len(guards[f]) <= 1 /\ guards[f] = <<>>
      BY <2>1
    <3> QED
      BY <2>3, <3>1, <3>2, <3>3, <3>4 DEF Guarded
<1> QED
  BY <1>2, <1>3, <1>4 DEF LockInv

LEMMA LocksKeep ==
  ASSUME SwitchInv, InCalls, pc \in [Tasks -> Nat], LockInv, Next
  PROVE  LockInv'
<1>1. PICK t \in Threads : Step(t)
  BY DEF Next
<1>2. CASE ThreadStep(t) /\ Untouched
  BY <1>2, ThreadKeepsLocks
<1>3. CASE Acquire(t)
  BY <1>3, LocksStay DEF Acquire, TasksStay, switchVars, cpu
<1>4. ASSUME NEW f \in Tasks, TaskStep(t, f) PROVE LockInv'
  <2>1. CASE notify(t, f)
    BY <2>1, CallKeepsLocks DEF notify, Notify, Ready
  <2>2. CASE tryWait(t, f) \/ reset(t, f)
    BY <2>2, CallKeepsLocks DEF tryWait, reset, Ready
  <2>3. CASE wait(t, f) /\ seen > 0
    BY <2>3, CallKeepsLocks DEF wait, Ready
  <2>4. CASE wait(t, f) /\ ~(seen > 0)
    BY <2>4, LocksStay DEF wait, TasksStay, switchVars, cpu
  <2>5. CASE Park(t, f)
    BY <2>5, ParkKeepsLocks
  <2>6. CASE Woken(t, f)
    <3>1. Op(f) = "wait"
      BY <2>6 DEF Woken, InCalls
    <3> QED
      BY <2>6, <3>1, CallKeepsLocks DEF Woken
  <2>7. CASE Return(t, f)
    BY <2>7, ReturnKeepsLocks
  <2>8. CASE ScopedLockImpl(t, f) \/ ReadScopedLockImpl(t, f) \/ WriteScopedLockImpl(t, f)
    <3>1. PICK kind \in Constructors : GuardStep(t, f, kind)
      BY <2>8 DEF ScopedLockImpl, ReadScopedLockImpl, WriteScopedLockImpl, Constructors
    <3> QED
      BY <3>1, ConstructKeepsLocks, MethodKeepsLocks DEF GuardStep
  <2> QED
    BY <1>4, <2>1, <2>2, <2>3, <2>4, <2>5, <2>6, <2>7, <2>8 DEF TaskStep
<1>5. CASE t = Root /\ MainNotify
  BY <1>5, LocksStay DEF MainNotify, Notify, TasksStay, cpu
<1>6. CASE t = Root /\ (Stop \/ Join) /\ Untouched
  BY <1>6, OutsideKeepsLocks
<1>7. CASE t \in Workers /\ StartStep(t) /\ Untouched
  BY <1>7, OutsideKeepsLocks
<1> QED
  BY <1>1, <1>2, <1>3, <1>4, <1>5, <1>6, <1>7 DEF Step, MainStep

-----------------------------------------------------------------------------
(* The results.                                                            *)
LEMMA Invariant ==
  Spec => []IndInv
<1>1. Init => IndInv
  BY SwitchStarts, SemaStarts, LocksStart DEF Init, IndInv
<1>2. IndInv /\ [Next]_vars => IndInv'
  <2>1. SUFFICES ASSUME IndInv, [Next]_vars PROVE IndInv'
    OBVIOUS
  <2>2. CASE Next
    BY <2>1, <2>2, SwitchKeeps, SemaKeeps, LocksKeep DEF IndInv, SemaInv, SemaTypes
  <2>3. CASE UNCHANGED vars
    <3>1. UNCHANGED <<switchVars, prog, pc, phase, semaVars, got, late, lockVars, misused>>
      BY <2>3 DEF vars, lockVars
    <3>2. SwitchInv'
      BY <2>1, <3>1, SwitchStays DEF IndInv
    <3>3. SemaInv'
      <4>1. UNCHANGED <<queue, waiters, phase>>
        BY <3>1 DEF switchVars, pool, semaVars
      <4>2. \A s \in Threads :
              exec'[s] = exec[s] /\ task'[s] = task[s] /\ (Taken(s)' <=> Taken(s))
        BY <3>1 DEF switchVars, cpu, Taken, Where
      <4>3. Tickets'
        BY <2>1, <4>1, <4>2, TicketsFrame DEF IndInv, SemaInv
      <4> QED
        BY <2>1, <3>1, <4>3, SemaStays DEF IndInv, SemaInv, SemaTypes
    <3>4. LockInv'
      BY <2>1, <3>1, LocksStay DEF IndInv, TasksStay, switchVars, cpu
    <3> QED
      BY <3>2, <3>3, <3>4 DEF IndInv
  <2> QED
    BY <2>1, <2>2, <2>3
<1> QED
  BY <1>1, <1>2, PTL DEF Spec

(* The types of the threads, the scheduler, the semaphore and the locks    *)
(* hold, start() stores the identifier of every worker it creates, and at  *)
(* most as many tasks are active as there are threads (scheduler.cpp:63-81 *)
(* and 100-196, mutex.cpp:37-83).                                          *)
THEOREM SemaphoreTypesHold ==
  Spec => []TypeOK
<1>1. IndInv => TypeOK
  <2>1. SUFFICES ASSUME IndInv PROVE TypeOK
    OBVIOUS
  <2>2. SwitchTypeOK
    <3>1. active \in 0..Cardinality(Threads)
      BY <2>1, BusyFinite DEF IndInv, SwitchInv, Counted
    <3>2. ctx \in [Fibers -> Fibers]
      BY <2>1 DEF IndInv, SwitchInv, SwitchTypes
    <3> QED
      BY <2>1, <3>1, <3>2 DEF IndInv, SwitchInv, SwitchTypes, SwitchTypeOK
  <2>3. rw.writer \in Threads \cup {None} /\ rw.readers \in Nat
    BY <2>1 DEF IndInv, LockInv, LockTypes
  <2> QED
    BY <2>1, <2>2, <2>3 DEF IndInv, SemaInv, SemaTypes, TypeOK
<1> QED
  BY <1>1, Invariant, PTL

(* A thread runs on the stack of the fiber it takes for its own, no stack  *)
(* is on two threads, and every m_ctx that is not in use holds its own     *)
(* fiber's registers: what resume() and yield() save and restore           *)
(* (fiber.cpp:140-194), with the mutex run() holds meanwhile               *)
(* (scheduler.cpp:137-162).                                                *)
THEOREM OwnStackHolds ==
  Spec => []OwnStack
<1>1. IndInv => OwnStack
  <2>1. SUFFICES ASSUME IndInv PROVE OwnStack
    OBVIOUS
  <2>2. SwitchInv
    BY <2>1 DEF IndInv
  <2>3. ASSUME NEW t \in Threads
        PROVE  exec[t] \in Tasks \cup {None, RunStack(t), idle(t)}
                 \/ (t = Root /\ exec[t] = main(Root))
    <3>1. CASE Begun(t)
      BY <2>2, <3>1 DEF SwitchInv, Placed, Place, Begun
    <3>2. CASE ~Begun(t) /\ t # Root
      BY <2>2, <3>2 DEF SwitchInv, Placed, Place
    <3>3. CASE ~Begun(t) /\ t = Root
      BY <2>2, <3>3, Stacks DEF SwitchInv, Placed, RootPlace, Begun, Where
    <3> QED
      BY <3>1, <3>2, <3>3
  <2>4. \A t \in Threads : exec[t] # None => exec[t] = tFiber[t]
    BY <2>2 DEF SwitchInv, Placed, Place
  <2>5. ASSUME NEW s \in Threads, NEW t \in Threads, s # t, exec[s] # None
        PROVE  exec[s] # exec[t]
    <3>1. CASE exec[s] \in Tasks
      BY <2>2, <2>5, <3>1, WhereTaskRuns
    <3>2. CASE exec[s] \notin Tasks
      BY <2>3, <2>5, <3>2, Stacks
    <3> QED
      BY <3>1, <3>2
  <2>6. \A f \in Fibers : (\A t \in Threads : exec[t] # f) => ctx[f] = f
    BY <2>2 DEF SwitchInv, SwitchTypes
  <2> QED
    BY <2>4, <2>5, <2>6 DEF OwnStack
<1> QED
  BY <1>1, Invariant, PTL

(* The assertion in resume() never fails, whatever the tasks do, unless a  *)
(* fiber is notified after stop() has returned: what run(), stop() and     *)
(* idle() resume is READY (scheduler.cpp:137-196 and 200-215).             *)
THEOREM AbortsOnlyLateHolds ==
  Spec => []AbortsOnlyLate
<1>1. IndInv => AbortsOnlyLate
  BY DEF IndInv, SwitchInv, Ended, AbortsOnlyLate
<1> QED
  BY <1>1, Invariant, PTL

(* No unit of the semaphore is lost or given twice, for any number of      *)
(* tasks, threads and calls, and nobody waits while the count is above     *)
(* zero; unless reset() ran inside a critical section or the count may     *)
(* have wrapped around (mutex.cpp:37-83, mutex.h:440).                     *)
THEOREM UnitsKeptHolds ==
  Spec => []UnitsKept
<1>1. IndInv => UnitsKept
  BY DEF IndInv, SemaInv
<1> QED
  BY <1>1, Invariant, PTL

(* The guards of different tasks exclude each other unless both read, and  *)
(* the locks are held exactly as the guards say, on any number of threads; *)
(* unless a guard is nested or still locked when its task waits            *)
(* (mutex.h:60-330).                                                       *)
THEOREM GuardsExcludeHolds ==
  Spec => []GuardsExclude
<1>1. IndInv => GuardsExclude
  <2>1. SUFFICES ASSUME IndInv, ~misused PROVE GuardsExclude
    BY DEF GuardsExclude
  <2> DEFINE Held(kind) == {f \in Tasks : \E i \in DOMAIN guards[f] :
                                            guards[f][i] = [kind |-> kind, locked |-> TRUE]}
  <2>2. Guarded /\ LockTypes
    BY <2>1 DEF IndInv, LockInv
  <2>3. ASSUME NEW kind \in Constructors PROVE Held(kind) = Holders(kind)
    <3>1. ASSUME NEW f \in Tasks
          PROVE  (\E i \in DOMAIN guards[f] :
                    guards[f][i] = [kind |-> kind, locked |-> TRUE]) <=> Holds(f, kind)
      <4> DEFINE G == [kind : Constructors, locked : BOOLEAN]
      <4>1. \A g \in G : g = [kind |-> kind, locked |-> TRUE] <=> g.kind = kind /\ g.locked
        OBVIOUS
      <4>2. guards[f] \in Seq(G) /\ Len(guards[f]) <= 1
        BY <2>2 DEF Guarded, LockTypes, Guards
      <4> HIDE DEF G
      <4>3. /\ Len(guards[f]) \in Nat /\ DOMAIN guards[f] = 1..Len(guards[f])
            /\ \A i \in DOMAIN guards[f] : guards[f][i] \in G
            /\ Len(guards[f]) = 0 <=> guards[f] = <<>>
        BY <4>2, LenProperties, ElementOfSeq, EmptySeq
      <4>4. \A i \in DOMAIN guards[f] : i = 1 /\ guards[f] # <<>>
        BY <4>2, <4>3
      <4>5. guards[f] # <<>> => 1 \in DOMAIN guards[f]
        BY <4>2, <4>3
      <4> QED
        BY <4>1, <4>3, <4>4, <4>5 DEF Holds
    <3> QED
      BY <3>1 DEF Holders
  <2>4. /\ Held("Lock") = Holders("Lock") /\ Held("ReadLock") = Holders("ReadLock")
        /\ Held("WriteLock") = Holders("WriteLock")
    BY <2>3 DEF Constructors
  <2> HIDE DEF Held
  <2>5. Cardinality(Held("Lock")) = IF excl THEN 1 ELSE 0
    <3>1. CASE Holders("Lock") = {}
      BY <2>2, <2>4, <3>1, FS_EmptySet DEF Guarded
    <3>2. CASE Holders("Lock") # {}
      <4>1. PICK f : f \in Holders("Lock")
        BY <3>2
      <4>2. Holders("Lock") = {f} /\ excl
        BY <2>2, <3>2, <4>1 DEF Guarded
      <4> QED
        BY <2>4, <4>2, FS_Singleton
    <3> QED
      BY <3>1, <3>2
  <2>6. Cardinality(Held("ReadLock")) = rw.readers
    BY <2>2, <2>4 DEF Guarded
  <2>7. Cardinality(Held("WriteLock")) = IF rw.writer = None THEN 0 ELSE 1
    BY <2>2, <2>4, FS_EmptySet, FS_Singleton DEF Guarded
  <2>8. Held("WriteLock") = {} \/ Held("ReadLock") = {}
    BY <2>2, <2>4, HoldersFinite, FS_EmptySet DEF Guarded
  <2> QED
    BY <2>5, <2>6, <2>7, <2>8 DEF GuardsExclude, Held
<1> QED
  BY <1>1, Invariant, PTL
=============================================================================
