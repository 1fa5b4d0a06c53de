-------------------------- MODULE IOSchedulerProofs --------------------------
(***************************************************************************)
(* Proofs about IOScheduler, for every number of workers, fibers and       *)
(* waits: its invariants, what stop() leaves behind, and that it           *)
(* implements TaskPool.                                                    *)
(***************************************************************************)
EXTENDS IOScheduler, SequenceTheorems, FiniteSetTheorems, TLAPS

-----------------------------------------------------------------------------
(* The inductive invariant.                                                *)

RunPC == {"lock", "run", "armed", "cb", "dec"}
MainPC == {"user", "halt", "join", "done"}
TicklePC == {"tickle", "write"}

Shape ==
  /\ IsFiniteSet(events)
  /\ \A t \in Threads : pc[t] \in TicklePC => cont[t] \notin TicklePC
  /\ \A t \in Pool : At(t) \notin MainPC
  /\ Main \notin Workers => At(Main) \in MainPC
  /\ \A w \in Workers :
       /\ task[w] # NoTask <=> At(w) \in RunPC
       /\ At(w) \in {"lock", "run", "armed"} => task[w].kind = "fiber"
       /\ At(w) = "cb" => task[w].kind = "cb"
       /\ cbs[w] # {} => At(w) = "process"
       /\ got[w] # {} => At(w) \in {"expire", "process", "settle"}
       /\ got[w] \subseteq events \ ready
  /\ \A v, w \in Workers : v # w => got[v] \cap got[w] = {}

Queued(f) == \E i \in 1..Len(mTasks) : mTasks[i].fiber = f
Held(f) == \E w \in Workers : Holds(w, f)
Expired(f) == \E w \in Workers : f \in cbs[w]

UniqueEntry ==
  \A i, j \in 1..Len(mTasks) : mTasks[i].fiber = mTasks[j].fiber => i = j

UniqueHolder ==
  \A f \in Fibers : \A v, w \in Workers : Holds(v, f) /\ Holds(w, f) => v = w

UniqueExpiry ==
  \A f \in Fibers : \A v, w \in Workers : f \in cbs[v] /\ f \in cbs[w] => v = w

OnePlace(f) ==
  /\ Queued(f) => ~Held(f) /\ ~Expired(f) /\ f \notin timers /\ f \notin events
  /\ Held(f) => ~Expired(f) /\ f \notin timers /\ f \notin events
  /\ Expired(f) => f \notin timers /\ f \notin events
  /\ f \in timers => f \notin events
  /\ Live(f) <=> \/ Queued(f) \/ Held(f) \/ Expired(f)
                 \/ f \in timers \/ f \in events
  /\ f \notin spawned => fiberState[f] = "READY"

Wake == /\ UniqueEntry /\ UniqueHolder /\ UniqueExpiry
        /\ \A f \in Fibers : OnePlace(f)

IndInv == TypeOK /\ Shape /\ Wake /\ OneRunner /\ CountersAgree

(* Removing the entry at position i closes the gap and keeps the order.    *)
LEMMA RemoveAtProperties ==
  ASSUME NEW S, NEW s \in Seq(S), NEW i \in 1..Len(s)
  PROVE  /\ RemoveAt(s, i) \in Seq(S)
         /\ Len(RemoveAt(s, i)) = Len(s) - 1
         /\ \A j \in 1..(Len(s) - 1) :
              RemoveAt(s, i)[j] = IF j < i THEN s[j] ELSE s[j + 1]
  <1> DEFINE a == SubSeq(s, 1, i - 1)
             b == SubSeq(s, i + 1, Len(s))
  <1>0. Len(s) \in Nat /\ i \in Nat
    BY LenProperties
  <1>1. /\ a \in Seq(S) /\ Len(a) = i - 1
        /\ \A j \in 1..(i - 1) : a[j] = s[j]
    <2>1. \A j \in 1..(i - 1) : s[j] \in S
      BY <1>0, ElementOfSeq
    <2> QED
      BY <1>0, <2>1, SubSeqProperties
  <1>2. /\ b \in Seq(S) /\ Len(b) = Len(s) - i
        /\ \A j \in 1..(Len(s) - i) : b[j] = s[i + j]
    <2>1. \A j \in (i + 1)..Len(s) : s[j] \in S
      BY <1>0, ElementOfSeq
    <2> QED
      BY <1>0, <2>1, SubSeqProperties
  <1>3. RemoveAt(s, i) = a \o b
    BY DEF RemoveAt
  <1> HIDE DEF a, b
  <1>4. /\ a \o b \in Seq(S)
        /\ Len(a \o b) = Len(s) - 1
        /\ \A j \in 1..(Len(s) - 1) :
             (a \o b)[j] = IF j <= i - 1 THEN a[j] ELSE b[j - (i - 1)]
    <2>1. /\ a \o b \in Seq(S)
          /\ Len(a \o b) = Len(a) + Len(b)
          /\ \A j \in 1..(Len(a) + Len(b)) :
               (a \o b)[j] = IF j <= Len(a) THEN a[j] ELSE b[j - Len(a)]
      BY <1>1, <1>2, ConcatProperties
    <2>2. Len(a) + Len(b) = Len(s) - 1
      BY <1>0, <1>1, <1>2
    <2> QED
      BY <1>1, <2>1, <2>2
  <1> QED
    BY <1>0, <1>1, <1>2, <1>3, <1>4

-----------------------------------------------------------------------------
(* Facts about one state in which the invariant holds.                     *)

LEMMA WorkersAreThreads == Workers \subseteq Threads /\ Main \in Threads
  BY DEF Workers, Threads

(* A worker in the middle of a task has a well-formed task.                *)
LEMMA TaskOfRunner ==
  ASSUME TypeOK, Shape, NEW w \in Workers, At(w) \in RunPC
  PROVE  /\ task[w] # NoTask /\ task[w] \in ScheduleTask
         /\ task[w].fiber \in Fibers
         /\ task[w].thread \in Workers \cup {AnyThread}
  <1>1. task[w] # NoTask /\ task[w] \in ScheduleTask
    BY WorkersAreThreads DEF TypeOK, Shape
  <1> QED
    BY <1>1 DEF ScheduleTask

LEMMA EntriesAreTasks ==
  /\ \A f \in Fibers, thr \in Workers \cup {AnyThread} :
       FiberTask(f, thr) \in ScheduleTask
  /\ \A f \in Fibers : CbTask(f) \in ScheduleTask
  BY DEF FiberTask, CbTask, ScheduleTask

LEMMA EntryOfQueue ==
  ASSUME TypeOK, NEW i \in 1..Len(mTasks)
  PROVE  /\ mTasks[i] \in ScheduleTask /\ mTasks[i] # NoTask
         /\ mTasks[i].fiber \in Fibers
         /\ mTasks[i].kind \in {"fiber", "cb"}
  <1>1. mTasks[i] \in ScheduleTask
    BY ElementOfSeq DEF TypeOK
  <1> QED
    BY <1>1, TaskAssumption DEF ScheduleTask

LEMMA WorkersFinite == IsFiniteSet(Workers)
  BY ThreadsAssumption, FS_AddElement DEF Workers

(* The counters are positive where the program lowers them.                *)
LEMMA CountersPositive ==
  ASSUME TypeOK, Shape, CountersAgree, NEW w \in Workers
  PROVE  /\ At(w) \in RunPC => mActive > 0
         /\ At(w) \in IdlePC => mIdle > 0
         /\ At(w) = "settle" => mPending > 0
  <1> DEFINE A == {v \in Workers : task[v] # NoTask}
             I == {v \in Workers : At(v) \in IdlePC}
             S == {v \in Workers : At(v) = "settle"}
  <1>1. IsFiniteSet(A) /\ IsFiniteSet(I) /\ IsFiniteSet(S)
    BY WorkersFinite, FS_Subset
  <1>2. /\ Cardinality(A) \in Nat /\ Cardinality(I) \in Nat
        /\ Cardinality(S) \in Nat /\ Cardinality(events) \in Nat
    BY <1>1, FS_CardinalityType DEF Shape
  <1>3. /\ mActive = Cardinality(A) /\ mIdle = Cardinality(I)
        /\ mPending = Cardinality(events) + Cardinality(S)
    BY DEF CountersAgree
  <1>4. /\ At(w) \in RunPC => A # {}
        /\ At(w) \in IdlePC => I # {}
        /\ At(w) = "settle" => S # {}
    BY DEF Shape
  <1> HIDE DEF A, I, S
  <1>5. /\ A # {} => Cardinality(A) # 0
        /\ I # {} => Cardinality(I) # 0
        /\ S # {} => Cardinality(S) # 0
    BY <1>1, FS_EmptySet
  <1> QED
    BY <1>2, <1>3, <1>4, <1>5

(* scheduleLock keeps the queue and the threads' positions well-typed.     *)
LEMMA ScheduleLockTyped ==
  ASSUME TypeOK, NEW t \in Threads, NEW entry \in ScheduleTask,
         NEW l \in PC, scheduleLock(t, entry, l)
  PROVE  /\ mTasks' \in Seq(ScheduleTask)
         /\ pc' \in [Threads -> PC] /\ cont' \in [Threads -> PC]
  <1>1. mTasks' \in Seq(ScheduleTask)
    <2>1. mTasks \in Seq(ScheduleTask) /\ mTasks' = Append(mTasks, entry)
      BY DEF TypeOK, scheduleLock
    <2> QED
      BY <2>1, AppendProperties
  <1>2. pc \in [Threads -> PC] /\ cont \in [Threads -> PC] /\ "tickle" \in PC
    BY DEF TypeOK, PC
  <1>3. CASE mTasks = <<>>
    <2>1. /\ pc' = [pc EXCEPT ![t] = "tickle"]
          /\ cont' = [cont EXCEPT ![t] = l]
      BY <1>3 DEF scheduleLock, Goto
    <2> QED
      BY <1>1, <1>2, <2>1
  <1>4. CASE mTasks # <<>>
    <2>1. pc' = [pc EXCEPT ![t] = l] /\ cont' = cont
      BY <1>4 DEF scheduleLock, Goto
    <2> QED
      BY <1>1, <1>2, <2>1
  <1> QED
    BY <1>3, <1>4

-----------------------------------------------------------------------------
(* Every step keeps the types: no counter of the code, all of them         *)
(* unsigned, is lowered below zero.                                        *)
LEMMA TypeStep ==
  ASSUME IndInv, Next
  PROVE  TypeOK'
  <1> USE DEF IndInv, TypeOK, Goto, queueVars, threadVars, fiberVars, waitVars,
              epollVars, PC
  <1>0. Workers \subseteq Threads /\ Main \in Threads
    BY WorkersAreThreads
  <1>1. ASSUME Stop PROVE TypeOK'
    <2>1. Cardinality(Workers) \in Nat
      BY WorkersFinite, FS_CardinalityType
    <2> QED
      BY <1>1, <1>0, <2>1 DEF Stop
  <1>2. ASSUME StopTickle PROVE TypeOK'
    BY <1>2, <1>0 DEF StopTickle
  <1>3. ASSUME StopRun PROVE TypeOK'
    BY <1>3, <1>0 DEF StopRun
  <1>4. ASSUME Join PROVE TypeOK'
    BY <1>4, <1>0 DEF Join
  <1>5. ASSUME NEW f \in Fibers, MainSchedule(f) PROVE TypeOK'
    <2>1. scheduleLock(Main, FiberTask(f, Pin[f]), "user") /\ "user" \in PC
      BY <1>5 DEF MainSchedule
    <2>2. FiberTask(f, Pin[f]) \in ScheduleTask
      BY FibersAssumption, EntriesAreTasks
    <2>3. /\ mTasks' \in Seq(ScheduleTask)
          /\ pc' \in [Threads -> PC] /\ cont' \in [Threads -> PC]
      BY <1>0, <2>1, <2>2, ScheduleLockTyped
    <2> QED
      BY <1>5, <2>3 DEF MainSchedule
  <1>6. ASSUME NEW w \in Workers, Fetch(w) PROVE TypeOK'
    <2>1. ASSUME NEW i \in 1..Len(mTasks)
          PROVE  /\ mTasks[i] \in ScheduleTask
                 /\ RemoveAt(mTasks, i) \in Seq(ScheduleTask)
      BY ElementOfSeq, RemoveAtProperties
    <2>2. CASE \E i \in 1..Len(mTasks) : IsFirstFor(w, i)
      <3>1. PICK i \in 1..Len(mTasks) :
              /\ task' = [task EXCEPT ![w] = mTasks[i]]
              /\ mTasks' = RemoveAt(mTasks, i)
              /\ mActive' = mActive + 1
              /\ cont' = [cont EXCEPT ![w] = Dispatch(mTasks[i])]
              /\ \/ pc' = [pc EXCEPT ![w] = "tickle"]
                 \/ pc' = [pc EXCEPT ![w] = Dispatch(mTasks[i])]
        BY <1>6, <2>2 DEF Fetch
      <3>2. Dispatch(mTasks[i]) \in PC
        BY DEF Dispatch
      <3>3. /\ task' \in [Threads -> ScheduleTask \cup {NoTask}]
            /\ mTasks' \in Seq(ScheduleTask) /\ mActive' \in Nat
        BY <1>0, <2>1, <3>1
      <3>4. pc' \in [Threads -> PC] /\ cont' \in [Threads -> PC]
        BY <1>0, <3>1, <3>2
      <3> QED
        BY <1>6, <3>3, <3>4 DEF Fetch
    <2>3. CASE \A i \in 1..Len(mTasks) : ~IsFirstFor(w, i)
      <3>1. /\ cont' = [cont EXCEPT ![w] = "empty"]
            /\ \/ pc' = [pc EXCEPT ![w] = "tickle"]
               \/ pc' = [pc EXCEPT ![w] = "empty"]
            /\ UNCHANGED <<task, mTasks, mActive>>
        BY <1>6, <2>3 DEF Fetch
      <3>2. pc' \in [Threads -> PC] /\ cont' \in [Threads -> PC]
        BY <1>0, <3>1
      <3> QED
        BY <1>6, <3>1, <3>2 DEF Fetch
    <2> QED
      BY <2>2, <2>3
  <1>7. ASSUME NEW w \in Workers, LockFiber(w) PROVE TypeOK'
    <2>1. task[w].fiber \in Fibers
      BY <1>7, TaskOfRunner DEF LockFiber, At, RunPC
    <2>2. CASE fiberState[task[w].fiber] = "TERM"
      BY <1>7, <1>0, <2>2 DEF LockFiber
    <2>3. CASE fiberState[task[w].fiber] # "TERM"
      <3> DEFINE f == task[w].fiber
      <3>1. /\ fiberLock' = [fiberLock EXCEPT ![f] = w]
            /\ fiberState' = [fiberState EXCEPT ![f] = "RUNNING"]
            /\ pc' = [pc EXCEPT ![w] = "run"]
        BY <1>7, <2>3 DEF LockFiber
      <3>2. /\ fiberLock' \in [Fibers -> Workers \cup {NoThread}]
            /\ fiberState' \in [Fibers -> {"READY", "RUNNING", "TERM"}]
            /\ pc' \in [Threads -> PC]
        BY <1>0, <2>1, <3>1
      <3> QED
        BY <1>7, <3>2 DEF LockFiber
    <2> QED
      BY <2>2, <2>3
  <1>8. ASSUME NEW w \in Workers, RunCb(w) PROVE TypeOK'
    <2>1. task[w].fiber \in Fibers
      BY <1>8, TaskOfRunner DEF RunCb, At, RunPC
    <2>2. FiberTask(task[w].fiber, AnyThread) \in ScheduleTask
      BY <2>1, EntriesAreTasks
    <2>3. scheduleLock(w, FiberTask(task[w].fiber, AnyThread), "dec")
      BY <1>8 DEF RunCb
    <2>4. /\ mTasks' \in Seq(ScheduleTask)
          /\ pc' \in [Threads -> PC] /\ cont' \in [Threads -> PC]
      BY <1>0, <2>2, <2>3, ScheduleLockTyped
    <2> QED
      BY <1>8, <2>4 DEF RunCb
  <1>9. ASSUME NEW w \in Workers, Dec(w) PROVE TypeOK'
    <2>1. mActive > 0
      BY <1>9, CountersPositive DEF Dec, At, RunPC, IdlePC
    <2> QED
      BY <1>9, <1>0, <2>1 DEF Dec
  <1>10. ASSUME NEW w \in Workers, GoIdle(w) PROVE TypeOK'
    <2>1. CASE idleTerm[w]
      BY <1>10, <1>0, <2>1 DEF GoIdle
    <2>2. CASE ~idleTerm[w]
      <3>1. pc' = [pc EXCEPT ![w] = "timers?"] /\ mIdle' = mIdle + 1
        BY <1>10, <2>2 DEF GoIdle
      <3>2. pc' \in [Threads -> PC] /\ mIdle' \in Nat
        BY <1>0, <3>1
      <3> QED
        BY <1>10, <3>2 DEF GoIdle
    <2> QED
      BY <2>1, <2>2
  <1>11. ASSUME NEW w \in Workers, Yield(w) PROVE TypeOK'
    BY <1>11, <1>0, TaskOfRunner DEF Yield, At, RunPC
  <1>12. ASSUME NEW w \in Workers, Finish(w) PROVE TypeOK'
    BY <1>12, <1>0, TaskOfRunner DEF Finish, At, RunPC
  <1>13. ASSUME NEW w \in Workers, Sleep(w) PROVE TypeOK'
    <2>1. task[w].fiber \in Fibers
      BY <1>13, TaskOfRunner DEF Sleep, At, RunPC
    <2>2. waits[task[w].fiber] + 1 \in 0..MaxWaits
      BY <1>13, <2>1, FibersAssumption DEF Sleep
    <2> QED
      BY <1>13, <1>0, <2>1, <2>2 DEF Sleep
  <1>14. ASSUME NEW w \in Workers, WaitEvent(w) PROVE TypeOK'
    <2>1. task[w].fiber \in Fibers
      BY <1>14, TaskOfRunner DEF WaitEvent, At, RunPC
    <2>2. waits[task[w].fiber] + 1 \in 0..MaxWaits
      BY <1>14, <2>1, FibersAssumption DEF WaitEvent
    <2> QED
      BY <1>14, <1>0, <2>1, <2>2 DEF WaitEvent
  <1>15. ASSUME NEW w \in Workers, NEW f \in Fibers, Spawn(w, f) PROVE TypeOK'
    <2>1. FiberTask(f, Pin[f]) \in ScheduleTask
      BY FibersAssumption, EntriesAreTasks
    <2>2. scheduleLock(w, FiberTask(f, Pin[f]), "run")
      BY <1>15 DEF Spawn
    <2>3. /\ mTasks' \in Seq(ScheduleTask)
          /\ pc' \in [Threads -> PC] /\ cont' \in [Threads -> PC]
      BY <1>0, <2>1, <2>2, ScheduleLockTyped
    <2> QED
      BY <1>15, <2>3 DEF Spawn
  <1>16. ASSUME NEW w \in Workers, CheckTimers(w) PROVE TypeOK'
    BY <1>16, <1>0 DEF CheckTimers
  <1>17. ASSUME NEW w \in Workers, CheckPending(w) PROVE TypeOK'
    BY <1>17, <1>0 DEF CheckPending
  <1>18. ASSUME NEW w \in Workers, CheckDrained(w) PROVE TypeOK'
    BY <1>18, <1>0 DEF CheckDrained
  <1>19. ASSUME NEW w \in Workers, EpollReturn(w) PROVE TypeOK'
    BY <1>19, <1>0 DEF EpollReturn
  <1>20. ASSUME NEW w \in Workers, EpollTimeout(w) PROVE TypeOK'
    BY <1>20, <1>0 DEF EpollTimeout
  <1>21. ASSUME NEW w \in Workers, ListExpiredCb(w) PROVE TypeOK'
    BY <1>21, <1>0 DEF ListExpiredCb
  <1>22. ASSUME NEW w \in Workers, NEW f \in Fibers, ScheduleCb(w, f) PROVE TypeOK'
    <2>1. CbTask(f) \in ScheduleTask
      BY EntriesAreTasks
    <2>2. scheduleLock(w, CbTask(f), "process")
      BY <1>22 DEF ScheduleCb
    <2>3. /\ mTasks' \in Seq(ScheduleTask)
          /\ pc' \in [Threads -> PC] /\ cont' \in [Threads -> PC]
      BY <1>0, <2>1, <2>2, ScheduleLockTyped
    <2>4. cbs' \in [Threads -> SUBSET Fibers]
      BY <1>22, <1>0 DEF ScheduleCb
    <2> QED
      BY <1>22, <2>3, <2>4 DEF ScheduleCb
  <1>23. ASSUME NEW w \in Workers, NEW f \in Fibers, Trigger(w, f) PROVE TypeOK'
    <2>1. FiberTask(f, AnyThread) \in ScheduleTask
      BY EntriesAreTasks
    <2>2. scheduleLock(w, FiberTask(f, AnyThread), "settle")
      BY <1>23 DEF Trigger
    <2>3. /\ mTasks' \in Seq(ScheduleTask)
          /\ pc' \in [Threads -> PC] /\ cont' \in [Threads -> PC]
      BY <1>0, <2>1, <2>2, ScheduleLockTyped
    <2>4. f \notin ready
      BY <1>23 DEF Trigger, Shape
    <2>5. /\ got' \in [Threads -> SUBSET Fibers]
          /\ ready' \subseteq events' /\ events' \subseteq Fibers
      BY <1>23, <1>0, <2>4 DEF Trigger
    <2> QED
      BY <1>23, <2>3, <2>5 DEF Trigger
  <1>24. ASSUME NEW w \in Workers, Drain(w) PROVE TypeOK'
    BY <1>24, <1>0 DEF Drain
  <1>25. ASSUME NEW w \in Workers, Settle(w) PROVE TypeOK'
    <2>1. mPending > 0
      BY <1>25, CountersPositive DEF Settle, At, RunPC, IdlePC
    <2> QED
      BY <1>25, <1>0, <2>1 DEF Settle
  <1>26. ASSUME NEW w \in Workers, IdleYield(w) PROVE TypeOK'
    BY <1>26, <1>0 DEF IdleYield
  <1>27. ASSUME NEW w \in Workers, Unidle(w) PROVE TypeOK'
    <2>1. mIdle > 0
      BY <1>27, CountersPositive DEF Unidle, At, RunPC, IdlePC
    <2> QED
      BY <1>27, <1>0, <2>1 DEF Unidle
  <1>28. ASSUME NEW t \in Threads, TickleCheck(t) PROVE TypeOK'
    BY <1>28, <1>0 DEF TickleCheck
  <1>29. ASSUME NEW t \in Threads, TickleWrite(t) PROVE TypeOK'
    BY <1>29, <1>0 DEF TickleWrite
  <1>30. ASSUME NEW f \in Fibers, TimerDue(f) PROVE TypeOK'
    BY <1>30, <1>0 DEF TimerDue
  <1>31. ASSUME NEW f \in Fibers, EventReady(f) PROVE TypeOK'
    BY <1>31, <1>0 DEF EventReady
  <1>u. CASE UNCHANGED vars
    BY <1>u DEF vars
  <1> QED
    BY <1>1, <1>2, <1>3, <1>4, <1>5, <1>6, <1>7, <1>8, <1>9, <1>10, <1>11,
       <1>12, <1>13, <1>14, <1>15, <1>16, <1>17, <1>18, <1>19, <1>20, <1>21,
       <1>22, <1>23, <1>24, <1>25, <1>26, <1>27, <1>28, <1>29, <1>30, <1>31,
       <1>u
       DEF Next, MainStep, RunStep, BlockStep, IdleStep, TickleStep, EnvStep,
           Terminated

-----------------------------------------------------------------------------
(* Every step keeps the relations between a thread's position, its task,   *)
(* its callbacks and its events.                                           *)
LEMMA ShapeStep ==
  ASSUME IndInv, TypeOK', Next
  PROVE  Shape'
  <1> USE DEF IndInv, Goto, queueVars, threadVars, fiberVars, waitVars,
              epollVars, RunPC, MainPC, TicklePC
  <1>0. /\ Workers \subseteq Threads /\ Main \in Threads /\ Pool \subseteq Threads
        /\ Main \notin Pool /\ Pool \subseteq Workers
        /\ Workers \subseteq Pool \cup {Main}
    BY ThreadsAssumption DEF Workers, Threads
  <1>a. /\ pc \in [Threads -> PC] /\ cont \in [Threads -> PC]
        /\ task \in [Threads -> ScheduleTask \cup {NoTask}]
        /\ cbs \in [Threads -> SUBSET Fibers]
        /\ got \in [Threads -> SUBSET Fibers]
    BY DEF TypeOK
  <1>1. ASSUME Stop PROVE Shape'
    BY <1>1, <1>0, <1>a DEF Stop, Shape, At
  <1>2. ASSUME StopTickle PROVE Shape'
    BY <1>2, <1>0, <1>a DEF StopTickle, Shape, At
  <1>3. ASSUME StopRun PROVE Shape'
    <2>1. UseCaller = (Main \in Workers)
      BY ThreadsAssumption DEF Workers
    <2>2. /\ pc' = [pc EXCEPT ![Main] = IF UseCaller THEN "fetch" ELSE "join"]
          /\ UNCHANGED <<cont, task, cbs, got, events, ready>>
          /\ pc[Main] = "halt"
      BY <1>3 DEF StopRun
    <2>3. CASE UseCaller
      <3>1. Main \in Workers /\ pc' = [pc EXCEPT ![Main] = "fetch"]
        BY <2>1, <2>2, <2>3
      <3>2. task[Main] = NoTask /\ cbs[Main] = {} /\ got[Main] = {}
        BY <2>2, <3>1 DEF Shape, At
      <3>3. \A t \in Threads \ {Main} : At(t)' = At(t) /\ pc'[t] = pc[t]
        BY <1>0, <1>a, <2>2, <3>1 DEF At
      <3>4. At(Main)' = "fetch" /\ pc'[Main] = "fetch"
        BY <1>0, <1>a, <3>1 DEF At
      <3> QED
        BY <1>0, <2>2, <3>1, <3>2, <3>3, <3>4 DEF Shape
    <2>4. CASE ~UseCaller
      BY <1>0, <1>a, <2>1, <2>2, <2>4 DEF Shape, At
    <2> QED
      BY <2>3, <2>4, ThreadsAssumption
  <1>4. ASSUME Join PROVE Shape'
    BY <1>4, <1>0, <1>a DEF Join, Shape, At
  <1>5. ASSUME NEW f \in Fibers, MainSchedule(f) PROVE Shape'
    BY <1>5, <1>0, <1>a DEF MainSchedule, Shape, At, scheduleLock
  <1>6. ASSUME NEW w \in Workers, Fetch(w) PROVE Shape'
    <2>1. CASE \E i \in 1..Len(mTasks) : IsFirstFor(w, i)
      <3>1. PICK i \in 1..Len(mTasks) :
              /\ task' = [task EXCEPT ![w] = mTasks[i]]
              /\ cont' = [cont EXCEPT ![w] = Dispatch(mTasks[i])]
              /\ \/ pc' = [pc EXCEPT ![w] = "tickle"]
                 \/ pc' = [pc EXCEPT ![w] = Dispatch(mTasks[i])]
        BY <1>6, <2>1 DEF Fetch
      <3>2. /\ mTasks[i] # NoTask
            /\ Dispatch(mTasks[i]) =
                 IF mTasks[i].kind = "fiber" THEN "lock" ELSE "cb"
            /\ mTasks[i].kind \in {"fiber", "cb"}
        BY EntryOfQueue DEF Dispatch
      <3>3. /\ At(w)' = Dispatch(mTasks[i]) /\ task'[w] = mTasks[i]
            /\ pc'[w] \in TicklePC => cont'[w] \notin TicklePC
        BY <1>0, <1>a, <3>1, <3>2 DEF At
      <3>4. \A t \in Threads \ {w} :
              /\ At(t)' = At(t) /\ task'[t] = task[t]
              /\ pc'[t] = pc[t] /\ cont'[t] = cont[t]
        BY <1>0, <1>a, <3>1 DEF At
      <3>5. At(w) = "fetch"
        BY <1>6 DEF Fetch, At
      <3> QED
        BY <1>6, <1>0, <3>2, <3>3, <3>4, <3>5 DEF Fetch, Shape
    <2>2. CASE \A i \in 1..Len(mTasks) : ~IsFirstFor(w, i)
      BY <1>6, <1>0, <1>a, <2>2 DEF Fetch, Shape, At
    <2> QED
      BY <2>1, <2>2
  <1>7. ASSUME NEW w \in Workers, LockFiber(w) PROVE Shape'
    BY <1>7, <1>0, <1>a DEF LockFiber, Shape, At
  <1>8. ASSUME NEW w \in Workers, RunCb(w) PROVE Shape'
    BY <1>8, <1>0, <1>a DEF RunCb, Shape, At, scheduleLock
  <1>9. ASSUME NEW w \in Workers, Dec(w) PROVE Shape'
    BY <1>9, <1>0, <1>a DEF Dec, Shape, At
  <1>10. ASSUME NEW w \in Workers, GoIdle(w) PROVE Shape'
    BY <1>10, <1>0, <1>a DEF GoIdle, Shape, At
  <1>11. ASSUME NEW w \in Workers, Yield(w) PROVE Shape'
    BY <1>11, <1>0, <1>a DEF Yield, Shape, At
  <1>12. ASSUME NEW w \in Workers, Finish(w) PROVE Shape'
    BY <1>12, <1>0, <1>a DEF Finish, Shape, At
  <1>13. ASSUME NEW w \in Workers, Sleep(w) PROVE Shape'
    BY <1>13, <1>0, <1>a DEF Sleep, Shape, At
  <1>14. ASSUME NEW w \in Workers, WaitEvent(w) PROVE Shape'
    <2>1. IsFiniteSet(events')
      BY <1>14, FS_AddElement DEF WaitEvent, Shape
    <2> QED
      BY <1>14, <1>0, <1>a, <2>1 DEF WaitEvent, Shape, At
  <1>15. ASSUME NEW w \in Workers, NEW f \in Fibers, Spawn(w, f) PROVE Shape'
    BY <1>15, <1>0, <1>a DEF Spawn, Shape, At, scheduleLock
  <1>16. ASSUME NEW w \in Workers, CheckTimers(w) PROVE Shape'
    BY <1>16, <1>0, <1>a DEF CheckTimers, Shape, At
  <1>17. ASSUME NEW w \in Workers, CheckPending(w) PROVE Shape'
    BY <1>17, <1>0, <1>a DEF CheckPending, Shape, At
  <1>18. ASSUME NEW w \in Workers, CheckDrained(w) PROVE Shape'
    BY <1>18, <1>0, <1>a DEF CheckDrained, Shape, At
  <1>19. ASSUME NEW w \in Workers, EpollReturn(w) PROVE Shape'
    <2>1. ready \subseteq events
      BY DEF TypeOK
    <2>2. /\ \A v \in Workers \ {w} : got'[v] = got[v]
          /\ got'[w] = ready /\ ready' = {} /\ events' = events
      BY <1>19, <1>0, <1>a DEF EpollReturn
    <2>3. \A v \in Workers : got'[v] \subseteq events' \ ready'
      BY <2>1, <2>2 DEF Shape
    <2>4. \A u, v \in Workers : u # v => got'[u] \cap got'[v] = {}
      BY <2>2 DEF Shape
    <2> QED
      BY <1>19, <1>0, <1>a, <2>2, <2>3, <2>4 DEF EpollReturn, Shape, At
  <1>20. ASSUME NEW w \in Workers, EpollTimeout(w) PROVE Shape'
    BY <1>20, <1>0, <1>a DEF EpollTimeout, Shape, At
  <1>21. ASSUME NEW w \in Workers, ListExpiredCb(w) PROVE Shape'
    BY <1>21, <1>0, <1>a DEF ListExpiredCb, Shape, At
  <1>22. ASSUME NEW w \in Workers, NEW f \in Fibers, ScheduleCb(w, f) PROVE Shape'
    BY <1>22, <1>0, <1>a DEF ScheduleCb, Shape, At, scheduleLock
  <1>23. ASSUME NEW w \in Workers, NEW f \in Fibers, Trigger(w, f) PROVE Shape'
    <2>1. IsFiniteSet(events')
      BY <1>23, FS_RemoveElement DEF Trigger, Shape
    <2>2. /\ \A v \in Workers \ {w} : got'[v] = got[v] /\ f \notin got[v]
          /\ got'[w] = got[w] \ {f}
          /\ events' = events \ {f} /\ ready' = ready
      BY <1>23, <1>0, <1>a DEF Trigger, Shape
    <2>3. \A v \in Workers : got'[v] \subseteq events' \ ready'
      BY <2>2 DEF Shape
    <2>4. \A u, v \in Workers : u # v => got'[u] \cap got'[v] = {}
      BY <2>2 DEF Shape
    <2> QED
      BY <1>23, <1>0, <1>a, <2>1, <2>2, <2>3, <2>4
         DEF Trigger, Shape, At, scheduleLock
  <1>24. ASSUME NEW w \in Workers, Drain(w) PROVE Shape'
    BY <1>24, <1>0, <1>a DEF Drain, Shape, At
  <1>25. ASSUME NEW w \in Workers, Settle(w) PROVE Shape'
    BY <1>25, <1>0, <1>a DEF Settle, Shape, At
  <1>26. ASSUME NEW w \in Workers, IdleYield(w) PROVE Shape'
    BY <1>26, <1>0, <1>a DEF IdleYield, Shape, At
  <1>27. ASSUME NEW w \in Workers, Unidle(w) PROVE Shape'
    BY <1>27, <1>0, <1>a DEF Unidle, Shape, At
  <1>28. ASSUME NEW t \in Threads, TickleCheck(t) PROVE Shape'
    BY <1>28, <1>0, <1>a DEF TickleCheck, Shape, At
  <1>29. ASSUME NEW t \in Threads, TickleWrite(t) PROVE Shape'
    BY <1>29, <1>0, <1>a DEF TickleWrite, Shape, At
  <1>30. ASSUME NEW f \in Fibers, TimerDue(f) PROVE Shape'
    BY <1>30, <1>0, <1>a DEF TimerDue, Shape, At
  <1>31. ASSUME NEW f \in Fibers, EventReady(f) PROVE Shape'
    BY <1>31, <1>0, <1>a DEF EventReady, Shape, At
  <1> QED
    BY <1>1, <1>2, <1>3, <1>4, <1>5, <1>6, <1>7, <1>8, <1>9, <1>10, <1>11,
       <1>12, <1>13, <1>14, <1>15, <1>16, <1>17, <1>18, <1>19, <1>20, <1>21,
       <1>22, <1>23, <1>24, <1>25, <1>26, <1>27, <1>28, <1>29, <1>30, <1>31
       DEF Next, MainStep, RunStep, BlockStep, IdleStep, TickleStep, EnvStep,
           Terminated, vars, Shape, At

-----------------------------------------------------------------------------
(* A fiber a worker has taken is alive, and nobody executes it while its   *)
(* mutex is free: assert(m_state == READY) in Fiber::resume holds.         *)
LEMMA HeldIsReady ==
  ASSUME TypeOK, Shape, Wake, OneRunner
  PROVE  ResumeReady
  <1> SUFFICES ASSUME NEW w \in Workers, pc[w] = "lock",
                      fiberLock[task[w].fiber] = NoThread
               PROVE  fiberState[task[w].fiber] = "READY"
    BY DEF ResumeReady
  <1>1. At(w) = "lock" /\ task[w] # NoTask /\ task[w].fiber \in Fibers
    BY TaskOfRunner DEF At, RunPC
  <1>2. Held(task[w].fiber)
    BY <1>1 DEF Held, Holds
  <1>3. fiberState[task[w].fiber] # "TERM"
    BY <1>1, <1>2 DEF Wake, OnePlace, Live
  <1>4. fiberState[task[w].fiber] # "RUNNING"
    BY <1>1 DEF OneRunner
  <1> QED
    BY <1>1, <1>3, <1>4 DEF TypeOK

(* Every step keeps the fiber mutexes in the hands of the workers that     *)
(* execute the fibers.                                                     *)
LEMMA RunnerStep ==
  ASSUME IndInv, Next
  PROVE  OneRunner'
  <1> USE DEF IndInv, Goto, queueVars, threadVars, fiberVars, waitVars,
              epollVars
  <1>0. Workers \subseteq Threads /\ Main \in Threads /\ NoThread \notin Workers
    BY ThreadsAssumption, WorkersAreThreads
  <1>a. /\ pc \in [Threads -> PC] /\ cont \in [Threads -> PC]
        /\ task \in [Threads -> ScheduleTask \cup {NoTask}]
        /\ fiberState \in [Fibers -> {"READY", "RUNNING", "TERM"}]
        /\ fiberLock \in [Fibers -> Workers \cup {NoThread}]
    BY DEF TypeOK
  <1>b. \A w \in Workers : At(w) \in RunPC => task[w] # NoTask /\ task[w].fiber \in Fibers
    BY TaskOfRunner
  <1>1. ASSUME Stop PROVE OneRunner'
    BY <1>1, <1>0, <1>a DEF Stop, OneRunner, At
  <1>2. ASSUME StopTickle PROVE OneRunner'
    BY <1>2, <1>0, <1>a DEF StopTickle, OneRunner, At
  <1>3. ASSUME StopRun PROVE OneRunner'
    BY <1>3, <1>0, <1>a DEF StopRun, OneRunner, At
  <1>4. ASSUME Join PROVE OneRunner'
    BY <1>4, <1>0, <1>a DEF Join, OneRunner, At
  <1>5. ASSUME NEW f \in Fibers, MainSchedule(f) PROVE OneRunner'
    BY <1>5, <1>0, <1>a DEF MainSchedule, OneRunner, At, scheduleLock
  <1>6. ASSUME NEW w \in Workers, Fetch(w) PROVE OneRunner'
    BY <1>6, <1>0, <1>a DEF Fetch, OneRunner, At, Shape, Dispatch, Shape, RunPC
  <1>7. ASSUME NEW w \in Workers, LockFiber(w) PROVE OneRunner'
    BY <1>7, <1>0, <1>a, <1>b DEF LockFiber, OneRunner, At, RunPC
  <1>8. ASSUME NEW w \in Workers, RunCb(w) PROVE OneRunner'
    BY <1>8, <1>0, <1>a, <1>b DEF RunCb, OneRunner, At, RunPC, scheduleLock
  <1>9. ASSUME NEW w \in Workers, Dec(w) PROVE OneRunner'
    BY <1>9, <1>0, <1>a DEF Dec, OneRunner, At, Shape, RunPC
  <1>10. ASSUME NEW w \in Workers, GoIdle(w) PROVE OneRunner'
    BY <1>10, <1>0, <1>a DEF GoIdle, OneRunner, At
  <1>11. ASSUME NEW w \in Workers, Yield(w) PROVE OneRunner'
    BY <1>11, <1>0, <1>a, <1>b DEF Yield, OneRunner, At, RunPC
  <1>12. ASSUME NEW w \in Workers, Finish(w) PROVE OneRunner'
    BY <1>12, <1>0, <1>a, <1>b DEF Finish, OneRunner, At, RunPC
  <1>13. ASSUME NEW w \in Workers, Sleep(w) PROVE OneRunner'
    BY <1>13, <1>0, <1>a, <1>b DEF Sleep, OneRunner, At, RunPC
  <1>14. ASSUME NEW w \in Workers, WaitEvent(w) PROVE OneRunner'
    BY <1>14, <1>0, <1>a, <1>b DEF WaitEvent, OneRunner, At, RunPC
  <1>15. ASSUME NEW w \in Workers, NEW f \in Fibers, Spawn(w, f) PROVE OneRunner'
    BY <1>15, <1>0, <1>a DEF Spawn, OneRunner, At, scheduleLock
  <1>16. ASSUME NEW w \in Workers, CheckTimers(w) PROVE OneRunner'
    BY <1>16, <1>0, <1>a DEF CheckTimers, OneRunner, At
  <1>17. ASSUME NEW w \in Workers, CheckPending(w) PROVE OneRunner'
    BY <1>17, <1>0, <1>a DEF CheckPending, OneRunner, At
  <1>18. ASSUME NEW w \in Workers, CheckDrained(w) PROVE OneRunner'
    BY <1>18, <1>0, <1>a DEF CheckDrained, OneRunner, At
  <1>19. ASSUME NEW w \in Workers, EpollReturn(w) PROVE OneRunner'
    BY <1>19, <1>0, <1>a DEF EpollReturn, OneRunner, At
  <1>20. ASSUME NEW w \in Workers, EpollTimeout(w) PROVE OneRunner'
    BY <1>20, <1>0, <1>a DEF EpollTimeout, OneRunner, At
  <1>21. ASSUME NEW w \in Workers, ListExpiredCb(w) PROVE OneRunner'
    BY <1>21, <1>0, <1>a DEF ListExpiredCb, OneRunner, At
  <1>22. ASSUME NEW w \in Workers, NEW f \in Fibers, ScheduleCb(w, f) PROVE OneRunner'
    BY <1>22, <1>0, <1>a DEF ScheduleCb, OneRunner, At, scheduleLock
  <1>23. ASSUME NEW w \in Workers, NEW f \in Fibers, Trigger(w, f) PROVE OneRunner'
    BY <1>23, <1>0, <1>a DEF Trigger, OneRunner, At, scheduleLock
  <1>24. ASSUME NEW w \in Workers, Drain(w) PROVE OneRunner'
    BY <1>24, <1>0, <1>a DEF Drain, OneRunner, At
  <1>25. ASSUME NEW w \in Workers, Settle(w) PROVE OneRunner'
    BY <1>25, <1>0, <1>a DEF Settle, OneRunner, At
  <1>26. ASSUME NEW w \in Workers, IdleYield(w) PROVE OneRunner'
    BY <1>26, <1>0, <1>a DEF IdleYield, OneRunner, At
  <1>27. ASSUME NEW w \in Workers, Unidle(w) PROVE OneRunner'
    BY <1>27, <1>0, <1>a DEF Unidle, OneRunner, At
  <1>28. ASSUME NEW t \in Threads, TickleCheck(t) PROVE OneRunner'
    BY <1>28, <1>0, <1>a DEF TickleCheck, OneRunner, At, Shape, TicklePC
  <1>29. ASSUME NEW t \in Threads, TickleWrite(t) PROVE OneRunner'
    BY <1>29, <1>0, <1>a DEF TickleWrite, OneRunner, At, Shape, TicklePC
  <1>30. ASSUME NEW f \in Fibers, TimerDue(f) PROVE OneRunner'
    BY <1>30, <1>0, <1>a DEF TimerDue, OneRunner, At
  <1>31. ASSUME NEW f \in Fibers, EventReady(f) PROVE OneRunner'
    BY <1>31, <1>0, <1>a DEF EventReady, OneRunner, At
  <1> QED
    BY <1>1, <1>2, <1>3, <1>4, <1>5, <1>6, <1>7, <1>8, <1>9, <1>10, <1>11,
       <1>12, <1>13, <1>14, <1>15, <1>16, <1>17, <1>18, <1>19, <1>20, <1>21,
       <1>22, <1>23, <1>24, <1>25, <1>26, <1>27, <1>28, <1>29, <1>30, <1>31
       DEF Next, MainStep, RunStep, BlockStep, IdleStep, TickleStep, EnvStep,
           Terminated, vars, OneRunner, At

-----------------------------------------------------------------------------
(* Every step keeps the one wake-up of each fiber.                         *)

LEMMA QueueAppended ==
  ASSUME TypeOK, UniqueEntry, NEW e \in ScheduleTask, ~Queued(e.fiber),
         mTasks' = Append(mTasks, e)
  PROVE  /\ UniqueEntry'
         /\ \A f \in Fibers : Queued(f)' <=> Queued(f) \/ f = e.fiber
  <1>1. /\ Len(mTasks) \in Nat /\ Len(mTasks') = Len(mTasks) + 1
        /\ \A i \in 1..Len(mTasks) : mTasks'[i] = mTasks[i]
        /\ mTasks'[Len(mTasks) + 1] = e
    BY AppendProperties, LenProperties DEF TypeOK
  <1>2. \A i \in 1..Len(mTasks') : i \in 1..Len(mTasks) \/ i = Len(mTasks) + 1
    BY <1>1
  <1>3. UniqueEntry'
    BY <1>1, <1>2 DEF UniqueEntry, Queued
  <1>4. ASSUME NEW f \in Fibers PROVE Queued(f)' <=> Queued(f) \/ f = e.fiber
    <2>1. ASSUME Queued(f)' PROVE Queued(f) \/ f = e.fiber
      <3>1. PICK i \in 1..Len(mTasks') : mTasks'[i].fiber = f
        BY <2>1 DEF Queued
      <3> QED
        BY <1>1, <1>2, <3>1 DEF Queued
    <2>2. ASSUME Queued(f) PROVE Queued(f)'
      BY <1>1, <2>2 DEF Queued
    <2>3. ASSUME f = e.fiber PROVE Queued(f)'
      BY <1>1, <2>3 DEF Queued
    <2> QED
      BY <2>1, <2>2, <2>3
  <1> QED
    BY <1>3, <1>4

LEMMA QueueRemoved ==
  ASSUME TypeOK, UniqueEntry, NEW i \in 1..Len(mTasks),
         mTasks' = RemoveAt(mTasks, i)
  PROVE  /\ UniqueEntry'
         /\ \A f \in Fibers : Queued(f)' <=> Queued(f) /\ f # mTasks[i].fiber
  <1>1. /\ Len(mTasks) \in Nat /\ Len(mTasks') = Len(mTasks) - 1
        /\ \A j \in 1..(Len(mTasks) - 1) :
             mTasks'[j] = IF j < i THEN mTasks[j] ELSE mTasks[j + 1]
    BY RemoveAtProperties, LenProperties DEF TypeOK
  <1> DEFINE old(j) == IF j < i THEN j ELSE j + 1
  <1>2. \A j \in 1..Len(mTasks') :
          old(j) \in 1..Len(mTasks) /\ old(j) # i /\ mTasks'[j] = mTasks[old(j)]
    BY <1>1
  <1>3. \A j \in 1..Len(mTasks) : j # i => \E k \in 1..Len(mTasks') : old(k) = j
    <2>1. ASSUME NEW j \in 1..Len(mTasks), j < i
          PROVE  j \in 1..Len(mTasks') /\ old(j) = j
      BY <1>1, <2>1
    <2>2. ASSUME NEW j \in 1..Len(mTasks), j > i
          PROVE  j - 1 \in 1..Len(mTasks') /\ old(j - 1) = j
      BY <1>1, <2>2
    <2> HIDE DEF old
    <2>3. ASSUME NEW j \in 1..Len(mTasks), j # i
          PROVE  \E k \in 1..Len(mTasks') : old(k) = j
      <3>1. j < i \/ j > i
        BY <1>1, <2>3
      <3> QED
        BY <2>1, <2>2, <3>1
    <2> QED
      BY <2>3
  <1>4. \A j, k \in 1..Len(mTasks') : old(j) = old(k) => j = k
    BY <1>1
  <1> HIDE DEF old
  <1>5. UniqueEntry'
    BY <1>2, <1>4 DEF UniqueEntry
  <1>6. ASSUME NEW f \in Fibers
        PROVE  Queued(f)' <=> Queued(f) /\ f # mTasks[i].fiber
    <2>1. ASSUME Queued(f)' PROVE Queued(f) /\ f # mTasks[i].fiber
      <3>1. PICK k \in 1..Len(mTasks') : mTasks'[k].fiber = f
        BY <2>1 DEF Queued
      <3>2. old(k) \in 1..Len(mTasks) /\ old(k) # i /\ mTasks[old(k)].fiber = f
        BY <1>2, <3>1
      <3> QED
        BY <3>2 DEF Queued, UniqueEntry
    <2>2. ASSUME Queued(f), f # mTasks[i].fiber PROVE Queued(f)'
      <3>1. PICK j \in 1..Len(mTasks) : mTasks[j].fiber = f
        BY <2>2 DEF Queued
      <3>2. PICK k \in 1..Len(mTasks') : old(k) = j
        BY <1>3, <2>2, <3>1
      <3>3. mTasks'[k].fiber = f
        BY <1>2, <3>1, <3>2
      <3> QED
        BY <3>3 DEF Queued
    <2> QED
      BY <2>1, <2>2
  <1> QED
    BY <1>5, <1>6

(* A step that moves no wake-up keeps the invariant.                       *)
LEMMA WakeFrame ==
  ASSUME Wake, UNCHANGED <<mTasks, cbs, timers, events, spawned>>,
         \A w \in Workers, f \in Fibers : Holds(w, f)' <=> Holds(w, f),
         \A f \in Fibers : /\ Live(f)' <=> Live(f)
                           /\ f \notin spawned => fiberState'[f] = fiberState[f]
  PROVE  Wake'
  BY DEF Wake, UniqueEntry, UniqueHolder, UniqueExpiry, OnePlace, Queued, Held,
         Expired

(* A step that moves the wake-ups of one fiber f only.                     *)
LEMMA WakeMove ==
  ASSUME Wake, NEW f \in Fibers, UniqueEntry', UniqueHolder', UniqueExpiry',
         OnePlace(f)',
         \A g \in Fibers \ {f} :
           /\ (Queued(g)' <=> Queued(g)) /\ (Held(g)' <=> Held(g))
           /\ Expired(g)' <=> Expired(g)
           /\ g \in timers' <=> g \in timers
           /\ g \in events' <=> g \in events
           /\ g \in spawned' <=> g \in spawned
           /\ fiberState'[g] = fiberState[g]
  PROVE  Wake'
  <1>1. ASSUME NEW g \in Fibers \ {f} PROVE OnePlace(g)'
    BY DEF Wake, OnePlace, Live
  <1> QED
    BY <1>1 DEF Wake

(* A worker that stops standing for fiber f.                               *)
LEMMA HolderLeaves ==
  ASSUME UniqueHolder, NEW w \in Workers, NEW f \in Fibers, Holds(w, f),
         \A v \in Workers, g \in Fibers : Holds(v, g)' <=> v # w /\ Holds(v, g)
  PROVE  /\ UniqueHolder'
         /\ \A g \in Fibers : Held(g)' <=> Held(g) /\ g # f
  <1>1. \A g \in Fibers : Holds(w, g) => g = f
    BY DEF Holds
  <1> QED
    BY <1>1 DEF UniqueHolder, Held

LEMMA WakeStep ==
  ASSUME IndInv, Next
  PROVE  Wake'
  <1> USE DEF IndInv, Goto, queueVars, threadVars, fiberVars, waitVars,
              epollVars
  <1>0. Workers \subseteq Threads /\ Main \in Threads /\ NoThread \notin Workers
    BY ThreadsAssumption, WorkersAreThreads
  <1>a. /\ pc \in [Threads -> PC] /\ cont \in [Threads -> PC]
        /\ task \in [Threads -> ScheduleTask \cup {NoTask}]
        /\ fiberState \in [Fibers -> {"READY", "RUNNING", "TERM"}]
        /\ fiberLock \in [Fibers -> Workers \cup {NoThread}]
        /\ cbs \in [Threads -> SUBSET Fibers]
    BY DEF TypeOK
  <1>b. \A w \in Workers : At(w) \in RunPC => task[w] # NoTask /\ task[w].fiber \in Fibers
    BY TaskOfRunner
  <1>1. ASSUME Stop PROVE Wake'
    <2>1. \A v \in Workers, g \in Fibers : Holds(v, g)' <=> Holds(v, g)
      BY <1>1, <1>0, <1>a DEF Stop, Holds, At
    <2>2. \A g \in Fibers : /\ Live(g)' <=> Live(g)
                            /\ g \notin spawned => fiberState'[g] = fiberState[g]
      BY <1>1, <1>a DEF Stop, Live
    <2> QED
      BY <1>1, <2>1, <2>2, WakeFrame DEF Stop
  <1>2. ASSUME StopTickle PROVE Wake'
    <2>1. \A v \in Workers, g \in Fibers : Holds(v, g)' <=> Holds(v, g)
      BY <1>2, <1>0, <1>a DEF StopTickle, Holds, At
    <2>2. \A g \in Fibers : /\ Live(g)' <=> Live(g)
                            /\ g \notin spawned => fiberState'[g] = fiberState[g]
      BY <1>2, <1>a DEF StopTickle, Live
    <2> QED
      BY <1>2, <2>1, <2>2, WakeFrame DEF StopTickle
  <1>3. ASSUME StopRun PROVE Wake'
    <2>1. \A v \in Workers, g \in Fibers : Holds(v, g)' <=> Holds(v, g)
      BY <1>3, <1>0, <1>a DEF StopRun, Holds, At
    <2>2. \A g \in Fibers : /\ Live(g)' <=> Live(g)
                            /\ g \notin spawned => fiberState'[g] = fiberState[g]
      BY <1>3, <1>a DEF StopRun, Live
    <2> QED
      BY <1>3, <2>1, <2>2, WakeFrame DEF StopRun
  <1>4. ASSUME Join PROVE Wake'
    <2>1. \A v \in Workers, g \in Fibers : Holds(v, g)' <=> Holds(v, g)
      BY <1>4, <1>0, <1>a DEF Join, Holds, At
    <2>2. \A g \in Fibers : /\ Live(g)' <=> Live(g)
                            /\ g \notin spawned => fiberState'[g] = fiberState[g]
      BY <1>4, <1>a DEF Join, Live
    <2> QED
      BY <1>4, <2>1, <2>2, WakeFrame DEF Join
  <1>5. ASSUME NEW f \in Fibers, MainSchedule(f) PROVE Wake'
    <2> DEFINE e == FiberTask(f, Pin[f])
    <2>1. e \in ScheduleTask /\ e.fiber = f /\ mTasks' = Append(mTasks, e)
      BY <1>5, EntriesAreTasks, FibersAssumption
         DEF MainSchedule, scheduleLock, FiberTask
    <2>2. /\ ~Queued(f) /\ ~Held(f) /\ ~Expired(f) /\ f \notin timers
          /\ f \notin events /\ fiberState[f] = "READY"
      BY <1>5 DEF MainSchedule, Wake, OnePlace, Live
    <2> HIDE DEF e
    <2>3. /\ UniqueEntry'
          /\ \A g \in Fibers : Queued(g)' <=> Queued(g) \/ g = f
      BY <2>1, <2>2, QueueAppended DEF Wake
    <2>h. \A v \in Workers, g \in Fibers : Holds(v, g)' <=> Holds(v, g)
      BY <1>5, <1>0, <1>a DEF MainSchedule, scheduleLock, Holds, At
    <2>4. UniqueHolder' /\ \A g \in Fibers : Held(g)' <=> Held(g)
      BY <2>h DEF Wake, UniqueHolder, Held
    <2>5. UniqueExpiry' /\ \A g \in Fibers : Expired(g)' <=> Expired(g)
      BY <1>5 DEF MainSchedule, Wake, UniqueExpiry, Expired
    <2>6. /\ spawned' = spawned \cup {f} /\ fiberState' = fiberState
          /\ timers' = timers /\ events' = events
      BY <1>5 DEF MainSchedule
    <2>7. OnePlace(f)'
      BY <2>2, <2>3, <2>4, <2>5, <2>6 DEF OnePlace, Live
    <2> QED
      BY <2>3, <2>4, <2>5, <2>6, <2>7, WakeMove
  <1>6. ASSUME NEW w \in Workers, Fetch(w) PROVE Wake'
    <2>1. CASE \E i \in 1..Len(mTasks) : IsFirstFor(w, i)
      <3>1. PICK i \in 1..Len(mTasks) :
              /\ task' = [task EXCEPT ![w] = mTasks[i]]
              /\ mTasks' = RemoveAt(mTasks, i)
              /\ cont' = [cont EXCEPT ![w] = Dispatch(mTasks[i])]
              /\ \/ pc' = [pc EXCEPT ![w] = "tickle"]
                 \/ pc' = [pc EXCEPT ![w] = Dispatch(mTasks[i])]
        BY <1>6, <2>1 DEF Fetch
      <3>0. PICK f \in Fibers : f = mTasks[i].fiber
        BY EntryOfQueue
      <3>2. /\ mTasks[i] # NoTask /\ f \in Fibers
            /\ Dispatch(mTasks[i]) \in {"lock", "cb"}
        BY EntryOfQueue DEF Dispatch
      <3>3. /\ At(w)' \in {"lock", "cb"} /\ task'[w] = mTasks[i]
            /\ At(w) = "fetch"
        BY <1>6, <1>0, <1>a, <3>1, <3>2 DEF At, Fetch
      <3>4. \A v \in Workers \ {w} : At(v)' = At(v) /\ task'[v] = task[v]
        BY <1>0, <1>a, <3>1 DEF At
      <3>5. /\ UniqueEntry'
            /\ \A g \in Fibers : Queued(g)' <=> Queued(g) /\ g # f
        BY <3>0, <3>1, QueueRemoved DEF Wake
      <3>6. /\ Queued(f) /\ ~Held(f) /\ ~Expired(f) /\ f \notin timers
            /\ f \notin events /\ Live(f) /\ f \in spawned
        BY <3>0 DEF Queued, Wake, OnePlace, Live
      <3>7. \A v \in Workers, g \in Fibers :
              Holds(v, g)' <=> Holds(v, g) \/ (v = w /\ g = f)
        BY <3>0, <3>2, <3>3, <3>4 DEF Holds
      <3>8. UniqueHolder' /\ \A g \in Fibers : Held(g)' <=> Held(g) \/ g = f
        BY <3>2, <3>6, <3>7 DEF Wake, UniqueHolder, Held
      <3>9. UniqueExpiry' /\ \A g \in Fibers : Expired(g)' <=> Expired(g)
        BY <1>6 DEF Fetch, Wake, UniqueExpiry, Expired
      <3>10. UNCHANGED <<spawned, fiberState, timers, events>>
        BY <1>6 DEF Fetch
      <3>11. OnePlace(f)'
        BY <3>2, <3>5, <3>6, <3>8, <3>9, <3>10 DEF OnePlace, Live
      <3> QED
        BY <3>2, <3>5, <3>8, <3>9, <3>10, <3>11, WakeMove
    <2>2. CASE \A i \in 1..Len(mTasks) : ~IsFirstFor(w, i)
      <3>1. \A v \in Workers, g \in Fibers : Holds(v, g)' <=> Holds(v, g)
        BY <1>6, <1>0, <1>a, <2>2 DEF Fetch, Holds, At
      <3> QED
        BY <1>6, <2>2, <3>1, WakeFrame DEF Fetch, Live
    <2> QED
      BY <2>1, <2>2
  <1>7. ASSUME NEW w \in Workers, LockFiber(w) PROVE Wake'
    <2>0. Live(task[w].fiber) /\ task[w].fiber \in Fibers
      BY <1>7, <1>b DEF LockFiber, At, RunPC, Wake, OnePlace, Held, Holds
    <2>1. \A v \in Workers, g \in Fibers : Holds(v, g)' <=> Holds(v, g)
      BY <1>7, <1>0, <1>a, <1>b, <2>0 DEF LockFiber, Holds, At, RunPC, Live
    <2>2. \A g \in Fibers : /\ Live(g)' <=> Live(g)
                            /\ g \notin spawned => fiberState'[g] = fiberState[g]
      BY <1>7, <1>a, <2>0 DEF LockFiber, Live
    <2> QED
      BY <1>7, <2>1, <2>2, WakeFrame DEF LockFiber
  <1>8. ASSUME NEW w \in Workers, RunCb(w) PROVE Wake'
    <2>0. PICK f \in Fibers : f = task[w].fiber
      BY <1>8, <1>b DEF RunCb, At, RunPC
    <2>1. f \in Fibers /\ Holds(w, f)
      BY <1>8, <1>b, <2>0 DEF RunCb, At, RunPC, Holds
    <2>h. \A v \in Workers, g \in Fibers : Holds(v, g)' <=> v # w /\ Holds(v, g)
      BY <1>8, <1>0, <1>a DEF RunCb, scheduleLock, Holds, At
    <2>4. UniqueHolder' /\ \A g \in Fibers : Held(g)' <=> Held(g) /\ g # f
      BY <2>1, <2>h, HolderLeaves DEF Wake
    <2>2. /\ ~Queued(f) /\ ~Expired(f) /\ f \notin timers
          /\ f \notin events /\ f \in spawned /\ fiberState[f] # "TERM"
      BY <2>1 DEF Wake, OnePlace, Live, Held
    <2>5. UniqueExpiry' /\ \A g \in Fibers : Expired(g)' <=> Expired(g)
      BY <1>8 DEF RunCb, Wake, UniqueExpiry, Expired
    <2> DEFINE e == FiberTask(f, AnyThread)
    <2>6. e \in ScheduleTask /\ e.fiber = f /\ mTasks' = Append(mTasks, e)
      BY <1>8, <2>0, <2>1, EntriesAreTasks DEF RunCb, scheduleLock, FiberTask
    <2> HIDE DEF e
    <2>3. /\ UniqueEntry'
          /\ \A g \in Fibers : Queued(g)' <=> Queued(g) \/ g = f
      BY <2>2, <2>6, QueueAppended DEF Wake
    <2>7. UNCHANGED <<spawned, fiberState, timers, events>>
      BY <1>8 DEF RunCb
    <2>8. OnePlace(f)'
      BY <2>1, <2>2, <2>3, <2>4, <2>5, <2>7 DEF OnePlace, Live
    <2> QED
      BY <2>1, <2>3, <2>4, <2>5, <2>7, <2>8, WakeMove
  <1>9. ASSUME NEW w \in Workers, Dec(w) PROVE Wake'
    <2>1. \A v \in Workers, g \in Fibers : Holds(v, g)' <=> Holds(v, g)
      BY <1>9, <1>0, <1>a DEF Dec, Holds, At, Shape, RunPC
    <2>2. \A g \in Fibers : /\ Live(g)' <=> Live(g)
                            /\ g \notin spawned => fiberState'[g] = fiberState[g]
      BY <1>9, <1>a DEF Dec, Live
    <2> QED
      BY <1>9, <2>1, <2>2, WakeFrame DEF Dec
  <1>10. ASSUME NEW w \in Workers, GoIdle(w) PROVE Wake'
    <2>1. \A v \in Workers, g \in Fibers : Holds(v, g)' <=> Holds(v, g)
      BY <1>10, <1>0, <1>a DEF GoIdle, Holds, At
    <2>2. \A g \in Fibers : /\ Live(g)' <=> Live(g)
                            /\ g \notin spawned => fiberState'[g] = fiberState[g]
      BY <1>10, <1>a DEF GoIdle, Live
    <2> QED
      BY <1>10, <2>1, <2>2, WakeFrame DEF GoIdle
  <1>11. ASSUME NEW w \in Workers, Yield(w) PROVE Wake'
    <2>0. Live(task[w].fiber) /\ task[w].fiber \in Fibers
      <3>1. task[w].fiber \in Fibers /\ fiberState[task[w].fiber] = "RUNNING"
        BY <1>0, <1>11, <1>b DEF Yield, At, RunPC, OneRunner
      <3>2. task[w].fiber \in spawned
        BY <3>1 DEF Wake, OnePlace
      <3> QED
        BY <3>1, <3>2 DEF Live
    <2>1. \A v \in Workers, g \in Fibers : Holds(v, g)' <=> Holds(v, g)
      BY <1>11, <1>0, <1>a, <1>b, <2>0 DEF Yield, Holds, At, RunPC, Live
    <2>2. \A g \in Fibers : /\ Live(g)' <=> Live(g)
                            /\ g \notin spawned => fiberState'[g] = fiberState[g]
      BY <1>11, <1>a, <2>0 DEF Yield, Live
    <2> QED
      BY <1>11, <2>1, <2>2, WakeFrame DEF Yield
  <1>12. ASSUME NEW w \in Workers, Finish(w) PROVE Wake'
    <2>0. PICK f \in Fibers : f = task[w].fiber
      BY <1>12, <1>b DEF Finish, At, RunPC
    <2>1. f \in Fibers /\ Holds(w, f)
      BY <1>12, <1>b, <2>0 DEF Finish, At, RunPC, Holds
    <2>h. \A v \in Workers, g \in Fibers : Holds(v, g)' <=> v # w /\ Holds(v, g)
      BY <1>12, <1>0, <1>a DEF Finish, scheduleLock, Holds, At
    <2>4. UniqueHolder' /\ \A g \in Fibers : Held(g)' <=> Held(g) /\ g # f
      BY <2>1, <2>h, HolderLeaves DEF Wake
    <2>2. /\ ~Queued(f) /\ ~Expired(f) /\ f \notin timers
          /\ f \notin events /\ f \in spawned /\ fiberState[f] # "TERM"
      BY <2>1 DEF Wake, OnePlace, Live, Held
    <2>5. UniqueExpiry' /\ \A g \in Fibers : Expired(g)' <=> Expired(g)
      BY <1>12 DEF Finish, Wake, UniqueExpiry, Expired
    <2>3. UniqueEntry' /\ \A g \in Fibers : Queued(g)' <=> Queued(g)
      BY <1>12 DEF Finish, Wake, UniqueEntry, Queued
    <2>6. /\ UNCHANGED <<spawned, timers, events>>
          /\ fiberState' = [fiberState EXCEPT ![f] = "TERM"]
      BY <1>12, <2>0 DEF Finish
    <2>7. OnePlace(f)'
      BY <1>a, <2>1, <2>2, <2>3, <2>4, <2>5, <2>6 DEF OnePlace, Live
    <2> QED
      BY <1>a, <2>1, <2>3, <2>4, <2>5, <2>6, <2>7, WakeMove
  <1>13. ASSUME NEW w \in Workers, Sleep(w) PROVE Wake'
    <2>0. PICK f \in Fibers : f = task[w].fiber
      BY <1>13, <1>b DEF Sleep, At, RunPC
    <2>1. f \in Fibers /\ Holds(w, f)
      BY <1>13, <1>b, <2>0 DEF Sleep, At, RunPC, Holds
    <2>h. \A v \in Workers, g \in Fibers : Holds(v, g)' <=> v # w /\ Holds(v, g)
      BY <1>13, <1>0, <1>a DEF Sleep, scheduleLock, Holds, At
    <2>4. UniqueHolder' /\ \A g \in Fibers : Held(g)' <=> Held(g) /\ g # f
      BY <2>1, <2>h, HolderLeaves DEF Wake
    <2>2. /\ ~Queued(f) /\ ~Expired(f) /\ f \notin timers
          /\ f \notin events /\ f \in spawned /\ fiberState[f] # "TERM"
      BY <2>1 DEF Wake, OnePlace, Live, Held
    <2>5. UniqueExpiry' /\ \A g \in Fibers : Expired(g)' <=> Expired(g)
      BY <1>13 DEF Sleep, Wake, UniqueExpiry, Expired
    <2>3. UniqueEntry' /\ \A g \in Fibers : Queued(g)' <=> Queued(g)
      BY <1>13 DEF Sleep, Wake, UniqueEntry, Queued
    <2>6. UNCHANGED <<spawned, fiberState, events>> /\ timers' = timers \cup {f}
      BY <1>13, <2>0 DEF Sleep
    <2>7. OnePlace(f)'
      BY <2>1, <2>2, <2>3, <2>4, <2>5, <2>6 DEF OnePlace, Live
    <2> QED
      BY <2>1, <2>3, <2>4, <2>5, <2>6, <2>7, WakeMove
  <1>14. ASSUME NEW w \in Workers, WaitEvent(w) PROVE Wake'
    <2>0. PICK f \in Fibers : f = task[w].fiber
      BY <1>14, <1>b DEF WaitEvent, At, RunPC
    <2>1. f \in Fibers /\ Holds(w, f)
      BY <1>14, <1>b, <2>0 DEF WaitEvent, At, RunPC, Holds
    <2>h. \A v \in Workers, g \in Fibers : Holds(v, g)' <=> v # w /\ Holds(v, g)
      BY <1>14, <1>0, <1>a DEF WaitEvent, scheduleLock, Holds, At
    <2>4. UniqueHolder' /\ \A g \in Fibers : Held(g)' <=> Held(g) /\ g # f
      BY <2>1, <2>h, HolderLeaves DEF Wake
    <2>2. /\ ~Queued(f) /\ ~Expired(f) /\ f \notin timers
          /\ f \notin events /\ f \in spawned /\ fiberState[f] # "TERM"
      BY <2>1 DEF Wake, OnePlace, Live, Held
    <2>5. UniqueExpiry' /\ \A g \in Fibers : Expired(g)' <=> Expired(g)
      BY <1>14 DEF WaitEvent, Wake, UniqueExpiry, Expired
    <2>3. UniqueEntry' /\ \A g \in Fibers : Queued(g)' <=> Queued(g)
      BY <1>14 DEF WaitEvent, Wake, UniqueEntry, Queued
    <2>6. UNCHANGED <<spawned, fiberState, timers>> /\ events' = events \cup {f}
      BY <1>14, <2>0 DEF WaitEvent
    <2>7. OnePlace(f)'
      BY <2>1, <2>2, <2>3, <2>4, <2>5, <2>6 DEF OnePlace, Live
    <2> QED
      BY <2>1, <2>3, <2>4, <2>5, <2>6, <2>7, WakeMove
  <1>15. ASSUME NEW w \in Workers, NEW f \in Fibers, Spawn(w, f) PROVE Wake'
    <2> DEFINE e == FiberTask(f, Pin[f])
    <2>1. e \in ScheduleTask /\ e.fiber = f /\ mTasks' = Append(mTasks, e)
      BY <1>15, EntriesAreTasks, FibersAssumption
         DEF Spawn, scheduleLock, FiberTask
    <2>2. /\ ~Queued(f) /\ ~Held(f) /\ ~Expired(f) /\ f \notin timers
          /\ f \notin events /\ fiberState[f] = "READY"
      BY <1>15 DEF Spawn, Wake, OnePlace, Live
    <2> HIDE DEF e
    <2>3. /\ UniqueEntry'
          /\ \A g \in Fibers : Queued(g)' <=> Queued(g) \/ g = f
      BY <2>1, <2>2, QueueAppended DEF Wake
    <2>h. \A v \in Workers, g \in Fibers : Holds(v, g)' <=> Holds(v, g)
      BY <1>15, <1>0, <1>a DEF Spawn, scheduleLock, Holds, At
    <2>4. UniqueHolder' /\ \A g \in Fibers : Held(g)' <=> Held(g)
      BY <2>h DEF Wake, UniqueHolder, Held
    <2>5. UniqueExpiry' /\ \A g \in Fibers : Expired(g)' <=> Expired(g)
      BY <1>15 DEF Spawn, Wake, UniqueExpiry, Expired
    <2>6. /\ spawned' = spawned \cup {f} /\ fiberState' = fiberState
          /\ timers' = timers /\ events' = events
      BY <1>15 DEF Spawn
    <2>7. OnePlace(f)'
      BY <2>2, <2>3, <2>4, <2>5, <2>6 DEF OnePlace, Live
    <2> QED
      BY <2>3, <2>4, <2>5, <2>6, <2>7, WakeMove
  <1>16. ASSUME NEW w \in Workers, CheckTimers(w) PROVE Wake'
    <2>1. \A v \in Workers, g \in Fibers : Holds(v, g)' <=> Holds(v, g)
      BY <1>16, <1>0, <1>a DEF CheckTimers, Holds, At
    <2>2. \A g \in Fibers : /\ Live(g)' <=> Live(g)
                            /\ g \notin spawned => fiberState'[g] = fiberState[g]
      BY <1>16, <1>a DEF CheckTimers, Live
    <2> QED
      BY <1>16, <2>1, <2>2, WakeFrame DEF CheckTimers
  <1>17. ASSUME NEW w \in Workers, CheckPending(w) PROVE Wake'
    <2>1. \A v \in Workers, g \in Fibers : Holds(v, g)' <=> Holds(v, g)
      BY <1>17, <1>0, <1>a DEF CheckPending, Holds, At
    <2>2. \A g \in Fibers : /\ Live(g)' <=> Live(g)
                            /\ g \notin spawned => fiberState'[g] = fiberState[g]
      BY <1>17, <1>a DEF CheckPending, Live
    <2> QED
      BY <1>17, <2>1, <2>2, WakeFrame DEF CheckPending
  <1>18. ASSUME NEW w \in Workers, CheckDrained(w) PROVE Wake'
    <2>1. \A v \in Workers, g \in Fibers : Holds(v, g)' <=> Holds(v, g)
      BY <1>18, <1>0, <1>a DEF CheckDrained, Holds, At
    <2>2. \A g \in Fibers : /\ Live(g)' <=> Live(g)
                            /\ g \notin spawned => fiberState'[g] = fiberState[g]
      BY <1>18, <1>a DEF CheckDrained, Live
    <2> QED
      BY <1>18, <2>1, <2>2, WakeFrame DEF CheckDrained
  <1>19. ASSUME NEW w \in Workers, EpollReturn(w) PROVE Wake'
    <2>1. \A v \in Workers, g \in Fibers : Holds(v, g)' <=> Holds(v, g)
      BY <1>19, <1>0, <1>a DEF EpollReturn, Holds, At
    <2>2. \A g \in Fibers : /\ Live(g)' <=> Live(g)
                            /\ g \notin spawned => fiberState'[g] = fiberState[g]
      BY <1>19, <1>a DEF EpollReturn, Live
    <2> QED
      BY <1>19, <2>1, <2>2, WakeFrame DEF EpollReturn
  <1>20. ASSUME NEW w \in Workers, EpollTimeout(w) PROVE Wake'
    <2>1. \A v \in Workers, g \in Fibers : Holds(v, g)' <=> Holds(v, g)
      BY <1>20, <1>0, <1>a DEF EpollTimeout, Holds, At
    <2>2. \A g \in Fibers : /\ Live(g)' <=> Live(g)
                            /\ g \notin spawned => fiberState'[g] = fiberState[g]
      BY <1>20, <1>a DEF EpollTimeout, Live
    <2> QED
      BY <1>20, <2>1, <2>2, WakeFrame DEF EpollTimeout
  <1>21. ASSUME NEW w \in Workers, ListExpiredCb(w) PROVE Wake'
    <2>1. /\ cbs[w] = {} /\ due \subseteq timers /\ timers \subseteq Fibers
          /\ cbs' = [cbs EXCEPT ![w] = due] /\ timers' = timers \ due
          /\ UNCHANGED <<mTasks, events, spawned, fiberState>>
      BY <1>21 DEF ListExpiredCb, Shape, At, TypeOK
    <2>2. \A v \in Workers, g \in Fibers : Holds(v, g)' <=> Holds(v, g)
      BY <1>21, <1>0, <1>a DEF ListExpiredCb, Holds, At
    <2>3. \A v \in Workers, g \in Fibers :
            g \in cbs'[v] <=> g \in cbs[v] \/ (v = w /\ g \in due)
      BY <1>0, <1>a, <2>1
    <2>4. \A g \in Fibers : /\ Queued(g)' <=> Queued(g)
                            /\ Held(g)' <=> Held(g)
                            /\ Expired(g)' <=> Expired(g) \/ g \in due
                            /\ g \in timers' <=> g \in timers /\ g \notin due
      BY <2>1, <2>2, <2>3 DEF Queued, Held, Expired
    <2>5. UniqueEntry' /\ UniqueHolder'
      BY <2>1, <2>2 DEF Wake, UniqueEntry, UniqueHolder
    <2>6. \A g \in due : g \in Fibers /\ ~Expired(g)
      BY <2>1 DEF Wake, OnePlace
    <2>7. UniqueExpiry'
      BY <2>3, <2>6 DEF Wake, UniqueExpiry, Expired
    <2>8. ASSUME NEW g \in Fibers PROVE OnePlace(g)'
      BY <2>1, <2>4 DEF Wake, OnePlace, Live
    <2> QED
      BY <2>5, <2>7, <2>8 DEF Wake
  <1>22. ASSUME NEW w \in Workers, NEW f \in Fibers, ScheduleCb(w, f) PROVE Wake'
    <2> DEFINE e == CbTask(f)
    <2>1. e \in ScheduleTask /\ e.fiber = f /\ mTasks' = Append(mTasks, e)
      BY <1>22, EntriesAreTasks DEF ScheduleCb, scheduleLock, CbTask
    <2> HIDE DEF e
    <2>2. f \in cbs[w] /\ Expired(f)
      BY <1>22 DEF ScheduleCb, Expired
    <2>3. /\ ~Queued(f) /\ ~Held(f) /\ f \notin timers
          /\ f \notin events /\ Live(f) /\ f \in spawned
      BY <2>2 DEF Wake, OnePlace, Live
    <2>4. /\ UniqueEntry'
          /\ \A g \in Fibers : Queued(g)' <=> Queued(g) \/ g = f
      BY <2>1, <2>3, QueueAppended DEF Wake
    <2>h. \A v \in Workers, g \in Fibers : Holds(v, g)' <=> Holds(v, g)
      BY <1>22, <1>0, <1>a DEF ScheduleCb, scheduleLock, Holds, At
    <2>5. UniqueHolder' /\ \A g \in Fibers : Held(g)' <=> Held(g)
      BY <2>h DEF Wake, UniqueHolder, Held
    <2>6. \A v \in Workers, g \in Fibers :
            g \in cbs'[v] <=> g \in cbs[v] /\ ~(v = w /\ g = f)
      BY <1>22, <1>0, <1>a DEF ScheduleCb
    <2>7. /\ UniqueExpiry'
          /\ \A g \in Fibers : Expired(g)' <=> Expired(g) /\ g # f
      BY <2>2, <2>6 DEF Wake, UniqueExpiry, Expired
    <2>8. UNCHANGED <<spawned, fiberState, timers, events>>
      BY <1>22 DEF ScheduleCb
    <2>9. OnePlace(f)'
      BY <2>3, <2>4, <2>5, <2>7, <2>8 DEF OnePlace, Live
    <2> QED
      BY <2>4, <2>5, <2>7, <2>8, <2>9, WakeMove
  <1>23. ASSUME NEW w \in Workers, NEW f \in Fibers, Trigger(w, f) PROVE Wake'
    <2> DEFINE e == FiberTask(f, AnyThread)
    <2>1. e \in ScheduleTask /\ e.fiber = f /\ mTasks' = Append(mTasks, e)
      BY <1>23, EntriesAreTasks DEF Trigger, scheduleLock, FiberTask
    <2> HIDE DEF e
    <2>2. f \in events
      BY <1>23 DEF Trigger, Shape
    <2>3. /\ ~Queued(f) /\ ~Held(f) /\ ~Expired(f) /\ f \notin timers
          /\ Live(f) /\ f \in spawned
      BY <2>2 DEF Wake, OnePlace, Live
    <2>4. /\ UniqueEntry'
          /\ \A g \in Fibers : Queued(g)' <=> Queued(g) \/ g = f
      BY <2>1, <2>3, QueueAppended DEF Wake
    <2>h. \A v \in Workers, g \in Fibers : Holds(v, g)' <=> Holds(v, g)
      BY <1>23, <1>0, <1>a DEF Trigger, scheduleLock, Holds, At
    <2>5. UniqueHolder' /\ \A g \in Fibers : Held(g)' <=> Held(g)
      BY <2>h DEF Wake, UniqueHolder, Held
    <2>6. UniqueExpiry' /\ \A g \in Fibers : Expired(g)' <=> Expired(g)
      BY <1>23 DEF Trigger, Wake, UniqueExpiry, Expired
    <2>7. /\ UNCHANGED <<spawned, fiberState, timers>>
          /\ events' = events \ {f}
      BY <1>23 DEF Trigger
    <2>8. OnePlace(f)'
      BY <2>3, <2>4, <2>5, <2>6, <2>7 DEF OnePlace, Live
    <2> QED
      BY <2>4, <2>5, <2>6, <2>7, <2>8, WakeMove
  <1>24. ASSUME NEW w \in Workers, Drain(w) PROVE Wake'
    <2>1. \A v \in Workers, g \in Fibers : Holds(v, g)' <=> Holds(v, g)
      BY <1>24, <1>0, <1>a DEF Drain, Holds, At
    <2>2. \A g \in Fibers : /\ Live(g)' <=> Live(g)
                            /\ g \notin spawned => fiberState'[g] = fiberState[g]
      BY <1>24, <1>a DEF Drain, Live
    <2> QED
      BY <1>24, <2>1, <2>2, WakeFrame DEF Drain
  <1>25. ASSUME NEW w \in Workers, Settle(w) PROVE Wake'
    <2>1. \A v \in Workers, g \in Fibers : Holds(v, g)' <=> Holds(v, g)
      BY <1>25, <1>0, <1>a DEF Settle, Holds, At
    <2>2. \A g \in Fibers : /\ Live(g)' <=> Live(g)
                            /\ g \notin spawned => fiberState'[g] = fiberState[g]
      BY <1>25, <1>a DEF Settle, Live
    <2> QED
      BY <1>25, <2>1, <2>2, WakeFrame DEF Settle
  <1>26. ASSUME NEW w \in Workers, IdleYield(w) PROVE Wake'
    <2>1. \A v \in Workers, g \in Fibers : Holds(v, g)' <=> Holds(v, g)
      BY <1>26, <1>0, <1>a DEF IdleYield, Holds, At
    <2>2. \A g \in Fibers : /\ Live(g)' <=> Live(g)
                            /\ g \notin spawned => fiberState'[g] = fiberState[g]
      BY <1>26, <1>a DEF IdleYield, Live
    <2> QED
      BY <1>26, <2>1, <2>2, WakeFrame DEF IdleYield
  <1>27. ASSUME NEW w \in Workers, Unidle(w) PROVE Wake'
    <2>1. \A v \in Workers, g \in Fibers : Holds(v, g)' <=> Holds(v, g)
      BY <1>27, <1>0, <1>a DEF Unidle, Holds, At
    <2>2. \A g \in Fibers : /\ Live(g)' <=> Live(g)
                            /\ g \notin spawned => fiberState'[g] = fiberState[g]
      BY <1>27, <1>a DEF Unidle, Live
    <2> QED
      BY <1>27, <2>1, <2>2, WakeFrame DEF Unidle
  <1>28. ASSUME NEW t \in Threads, TickleCheck(t) PROVE Wake'
    <2>1. \A v \in Workers, g \in Fibers : Holds(v, g)' <=> Holds(v, g)
      BY <1>28, <1>0, <1>a DEF TickleCheck, Holds, At, Shape, TicklePC
    <2>2. \A g \in Fibers : /\ Live(g)' <=> Live(g)
                            /\ g \notin spawned => fiberState'[g] = fiberState[g]
      BY <1>28, <1>a DEF TickleCheck, Live
    <2> QED
      BY <1>28, <2>1, <2>2, WakeFrame DEF TickleCheck
  <1>29. ASSUME NEW t \in Threads, TickleWrite(t) PROVE Wake'
    <2>1. \A v \in Workers, g \in Fibers : Holds(v, g)' <=> Holds(v, g)
      BY <1>29, <1>0, <1>a DEF TickleWrite, Holds, At, Shape, TicklePC
    <2>2. \A g \in Fibers : /\ Live(g)' <=> Live(g)
                            /\ g \notin spawned => fiberState'[g] = fiberState[g]
      BY <1>29, <1>a DEF TickleWrite, Live
    <2> QED
      BY <1>29, <2>1, <2>2, WakeFrame DEF TickleWrite
  <1>30. ASSUME NEW f \in Fibers, TimerDue(f) PROVE Wake'
    <2>1. \A v \in Workers, g \in Fibers : Holds(v, g)' <=> Holds(v, g)
      BY <1>30, <1>0, <1>a DEF TimerDue, Holds, At
    <2>2. \A g \in Fibers : /\ Live(g)' <=> Live(g)
                            /\ g \notin spawned => fiberState'[g] = fiberState[g]
      BY <1>30, <1>a DEF TimerDue, Live
    <2> QED
      BY <1>30, <2>1, <2>2, WakeFrame DEF TimerDue
  <1>31. ASSUME NEW f \in Fibers, EventReady(f) PROVE Wake'
    <2>1. \A v \in Workers, g \in Fibers : Holds(v, g)' <=> Holds(v, g)
      BY <1>31, <1>0, <1>a DEF EventReady, Holds, At
    <2>2. \A g \in Fibers : /\ Live(g)' <=> Live(g)
                            /\ g \notin spawned => fiberState'[g] = fiberState[g]
      BY <1>31, <1>a DEF EventReady, Live
    <2> QED
      BY <1>31, <2>1, <2>2, WakeFrame DEF EventReady
  <1>32. ASSUME UNCHANGED vars PROVE Wake'
    <2>1. \A v \in Workers, g \in Fibers : Holds(v, g)' <=> Holds(v, g)
      BY <1>32 DEF vars, Holds, At
    <2> QED
      BY <1>32, <2>1, WakeFrame DEF vars, Live
  <1> QED
    BY <1>1, <1>2, <1>3, <1>4, <1>5, <1>6, <1>7, <1>8, <1>9, <1>10, <1>11,
       <1>12, <1>13, <1>14, <1>15, <1>16, <1>17, <1>18, <1>19, <1>20, <1>21,
       <1>22, <1>23, <1>24, <1>25, <1>26, <1>27, <1>28, <1>29, <1>30, <1>31,
       <1>32
       DEF Next, MainStep, RunStep, BlockStep, IdleStep, TickleStep, EnvStep,
           Terminated

-----------------------------------------------------------------------------
(* Every step keeps the counters in agreement with the threads.            *)

ActiveSet == {w \in Workers : task[w] # NoTask}
IdleSet == {w \in Workers : At(w) \in IdlePC}
SettleSet == {w \in Workers : At(w) = "settle"}

LEMMA CountersOfSets ==
  CountersAgree <=> /\ mActive = Cardinality(ActiveSet)
                    /\ mIdle = Cardinality(IdleSet)
                    /\ mPending = Cardinality(events) + Cardinality(SettleSet)
  BY DEF CountersAgree, ActiveSet, IdleSet, SettleSet

LEMMA SetsFinite ==
  ASSUME Shape
  PROVE  /\ IsFiniteSet(ActiveSet) /\ IsFiniteSet(IdleSet)
         /\ IsFiniteSet(SettleSet) /\ IsFiniteSet(events)
         /\ Cardinality(ActiveSet) \in Nat /\ Cardinality(IdleSet) \in Nat
         /\ Cardinality(SettleSet) \in Nat /\ Cardinality(events) \in Nat
  <1>1. /\ IsFiniteSet(ActiveSet) /\ IsFiniteSet(IdleSet)
        /\ IsFiniteSet(SettleSet) /\ IsFiniteSet(events)
    BY WorkersFinite, FS_Subset DEF ActiveSet, IdleSet, SettleSet, Shape
  <1> QED
    BY <1>1, FS_CardinalityType

LEMMA CardinalityWith ==
  ASSUME NEW S, IsFiniteSet(S), NEW x
  PROVE  /\ x \notin S => Cardinality(S \cup {x}) = Cardinality(S) + 1
         /\ x \in S => Cardinality(S \ {x}) = Cardinality(S) - 1
  BY FS_AddElement, FS_RemoveElement

LEMMA CountStep ==
  ASSUME IndInv, Next
  PROVE  CountersAgree'
  <1> USE DEF IndInv, Goto, queueVars, threadVars, fiberVars, waitVars,
              epollVars
  <1>0. Workers \subseteq Threads /\ Main \in Threads
    BY WorkersAreThreads
  <1>a. /\ pc \in [Threads -> PC] /\ cont \in [Threads -> PC]
        /\ task \in [Threads -> ScheduleTask \cup {NoTask}]
    BY DEF TypeOK
  <1>c. /\ mActive = Cardinality(ActiveSet) /\ mIdle = Cardinality(IdleSet)
        /\ mPending = Cardinality(events) + Cardinality(SettleSet)
    BY CountersOfSets
  <1>s. SUFFICES /\ mActive' = Cardinality(ActiveSet')
                 /\ mIdle' = Cardinality(IdleSet')
                 /\ mPending' = Cardinality(events') + Cardinality(SettleSet')
    BY DEF CountersAgree, ActiveSet, IdleSet, SettleSet
  <1> DEFINE Agree == /\ mActive = Cardinality(ActiveSet)
                      /\ mIdle = Cardinality(IdleSet)
                      /\ mPending = Cardinality(events) + Cardinality(SettleSet)
  <1>1. ASSUME Stop PROVE Agree'
    <2>1. ActiveSet' = ActiveSet /\ IdleSet' = IdleSet /\ SettleSet' = SettleSet
      BY <1>1, <1>0, <1>a DEF Stop, ActiveSet, IdleSet, SettleSet, IdlePC, At
    <2> QED
      BY <1>1, <1>c, <2>1 DEF Stop
  <1>2. ASSUME StopTickle PROVE Agree'
    <2>1. ActiveSet' = ActiveSet /\ IdleSet' = IdleSet /\ SettleSet' = SettleSet
      BY <1>2, <1>0, <1>a DEF StopTickle, ActiveSet, IdleSet, SettleSet, IdlePC, At
    <2> QED
      BY <1>2, <1>c, <2>1 DEF StopTickle
  <1>3. ASSUME StopRun PROVE Agree'
    <2>1. ActiveSet' = ActiveSet /\ IdleSet' = IdleSet /\ SettleSet' = SettleSet
      BY <1>3, <1>0, <1>a DEF StopRun, ActiveSet, IdleSet, SettleSet, IdlePC, At
    <2> QED
      BY <1>3, <1>c, <2>1 DEF StopRun
  <1>4. ASSUME Join PROVE Agree'
    <2>1. ActiveSet' = ActiveSet /\ IdleSet' = IdleSet /\ SettleSet' = SettleSet
      BY <1>4, <1>0, <1>a DEF Join, ActiveSet, IdleSet, SettleSet, IdlePC, At
    <2> QED
      BY <1>4, <1>c, <2>1 DEF Join
  <1>5. ASSUME NEW f \in Fibers, MainSchedule(f) PROVE Agree'
    <2>1. ActiveSet' = ActiveSet /\ IdleSet' = IdleSet /\ SettleSet' = SettleSet
      BY <1>5, <1>0, <1>a
         DEF MainSchedule, ActiveSet, IdleSet, SettleSet, IdlePC, At,
             scheduleLock
    <2> QED
      BY <1>5, <1>c, <2>1 DEF MainSchedule
  <1>6. ASSUME NEW w \in Workers, Fetch(w) PROVE Agree'
    <2>1. CASE \E i \in 1..Len(mTasks) : IsFirstFor(w, i)
      <3>0. PICK i \in 1..Len(mTasks) :
              /\ task' = [task EXCEPT ![w] = mTasks[i]] /\ mTasks[i] # NoTask
              /\ mActive' = mActive + 1
              /\ cont' = [cont EXCEPT ![w] = Dispatch(mTasks[i])]
              /\ \/ pc' = [pc EXCEPT ![w] = "tickle"]
                 \/ pc' = [pc EXCEPT ![w] = Dispatch(mTasks[i])]
              /\ Dispatch(mTasks[i]) \in {"lock", "cb"}
        BY <1>6, <2>1, EntryOfQueue DEF Fetch, Dispatch
      <3>a. w \notin ActiveSet
        BY <1>6 DEF Fetch, Shape, At, RunPC, ActiveSet
      <3>1. ActiveSet' = ActiveSet \cup {w} /\ w \notin ActiveSet
        BY <1>6, <1>0, <1>a, <3>0, <3>a DEF Fetch, ActiveSet
      <3>2. IdleSet' = IdleSet
        BY <1>6, <1>0, <1>a, <3>0, <3>a DEF Fetch, IdleSet, IdlePC, At
      <3>3. SettleSet' = SettleSet
        BY <1>6, <1>0, <1>a, <3>0, <3>a DEF Fetch, SettleSet, At
      <3>4. events' = events
        BY <1>6, <1>0, <1>a, <3>0, <3>a DEF Fetch
      <3>5. mActive' = mActive + 1 /\ UNCHANGED <<mIdle, mPending>>
        BY <1>6, <1>0, <1>a, <3>0, <3>a DEF Fetch
      <3> QED
        BY <1>c, <3>1, <3>2, <3>3, <3>4, <3>5, SetsFinite, CardinalityWith
    <2>2. CASE \A i \in 1..Len(mTasks) : ~IsFirstFor(w, i)
      <3>1. ActiveSet' = ActiveSet /\ IdleSet' = IdleSet /\ SettleSet' = SettleSet
        BY <1>6, <1>0, <1>a, <2>2 DEF Fetch, ActiveSet, IdleSet, SettleSet, IdlePC, At
      <3> QED
        BY <1>6, <1>c, <2>2, <3>1 DEF Fetch
    <2> QED
      BY <2>1, <2>2
  <1>7. ASSUME NEW w \in Workers, LockFiber(w) PROVE Agree'
    <2>1. ActiveSet' = ActiveSet /\ IdleSet' = IdleSet /\ SettleSet' = SettleSet
      BY <1>7, <1>0, <1>a DEF LockFiber, ActiveSet, IdleSet, SettleSet, IdlePC, At
    <2> QED
      BY <1>7, <1>c, <2>1 DEF LockFiber
  <1>8. ASSUME NEW w \in Workers, RunCb(w) PROVE Agree'
    <2>1. ActiveSet' = ActiveSet /\ IdleSet' = IdleSet /\ SettleSet' = SettleSet
      BY <1>8, <1>0, <1>a
         DEF RunCb, ActiveSet, IdleSet, SettleSet, IdlePC, At, scheduleLock
    <2> QED
      BY <1>8, <1>c, <2>1 DEF RunCb
  <1>9. ASSUME NEW w \in Workers, Dec(w) PROVE Agree'
    <2>1. ActiveSet' = ActiveSet \ {w} /\ w \in ActiveSet
      BY <1>9, <1>0, <1>a DEF Dec, ActiveSet, Shape, RunPC, At
    <2>2. IdleSet' = IdleSet
      BY <1>9, <1>0, <1>a DEF Dec, IdleSet, IdlePC, At
    <2>3. SettleSet' = SettleSet
      BY <1>9, <1>0, <1>a DEF Dec, SettleSet, At
    <2>4. events' = events
      BY <1>9, <1>0, <1>a DEF Dec
    <2>5. mActive' = mActive - 1 /\ UNCHANGED <<mIdle, mPending>>
      BY <1>9, <1>0, <1>a DEF Dec
    <2> QED
      BY <1>c, <2>1, <2>2, <2>3, <2>4, <2>5, SetsFinite, CardinalityWith
  <1>10. ASSUME NEW w \in Workers, GoIdle(w) PROVE Agree'
    <2>1. CASE ~idleTerm[w]
      <3>1. ActiveSet' = ActiveSet
        BY <1>10, <1>0, <1>a, <2>1 DEF GoIdle, ActiveSet
      <3>2. IdleSet' = IdleSet \cup {w} /\ w \notin IdleSet
        BY <1>10, <1>0, <1>a, <2>1 DEF GoIdle, IdleSet, IdlePC, At
      <3>3. SettleSet' = SettleSet
        BY <1>10, <1>0, <1>a, <2>1 DEF GoIdle, SettleSet, At
      <3>4. events' = events
        BY <1>10, <1>0, <1>a, <2>1 DEF GoIdle
      <3>5. mIdle' = mIdle + 1 /\ UNCHANGED <<mActive, mPending>>
        BY <1>10, <1>0, <1>a, <2>1 DEF GoIdle
      <3> QED
        BY <1>c, <3>1, <3>2, <3>3, <3>4, <3>5, SetsFinite, CardinalityWith
    <2>2. CASE idleTerm[w]
      <3>1. ActiveSet' = ActiveSet /\ IdleSet' = IdleSet /\ SettleSet' = SettleSet
        BY <1>10, <1>0, <1>a, <2>2 DEF GoIdle, ActiveSet, IdleSet, SettleSet, IdlePC, At
      <3> QED
        BY <1>10, <1>c, <2>2, <3>1 DEF GoIdle
    <2> QED
      BY <2>1, <2>2
  <1>11. ASSUME NEW w \in Workers, Yield(w) PROVE Agree'
    <2>1. ActiveSet' = ActiveSet /\ IdleSet' = IdleSet /\ SettleSet' = SettleSet
      BY <1>11, <1>0, <1>a DEF Yield, ActiveSet, IdleSet, SettleSet, IdlePC, At
    <2> QED
      BY <1>11, <1>c, <2>1 DEF Yield
  <1>12. ASSUME NEW w \in Workers, Finish(w) PROVE Agree'
    <2>1. ActiveSet' = ActiveSet /\ IdleSet' = IdleSet /\ SettleSet' = SettleSet
      BY <1>12, <1>0, <1>a DEF Finish, ActiveSet, IdleSet, SettleSet, IdlePC, At
    <2> QED
      BY <1>12, <1>c, <2>1 DEF Finish
  <1>13. ASSUME NEW w \in Workers, Sleep(w) PROVE Agree'
    <2>1. ActiveSet' = ActiveSet /\ IdleSet' = IdleSet /\ SettleSet' = SettleSet
      BY <1>13, <1>0, <1>a DEF Sleep, ActiveSet, IdleSet, SettleSet, IdlePC, At
    <2> QED
      BY <1>13, <1>c, <2>1 DEF Sleep
  <1>14. ASSUME NEW w \in Workers, WaitEvent(w) PROVE Agree'
    <2>0. PICK f \in Fibers : f = task[w].fiber
      BY <1>14, TaskOfRunner DEF WaitEvent, At, RunPC
    <2>a. f \notin events
      BY <1>14, <2>0, TaskOfRunner
         DEF WaitEvent, At, RunPC, Wake, OnePlace, Held, Holds
    <2>1. ActiveSet' = ActiveSet
      BY <1>14, <1>0, <1>a, <2>0, <2>a DEF WaitEvent, ActiveSet
    <2>2. IdleSet' = IdleSet
      BY <1>14, <1>0, <1>a, <2>0, <2>a DEF WaitEvent, IdleSet, IdlePC, At
    <2>3. SettleSet' = SettleSet
      BY <1>14, <1>0, <1>a, <2>0, <2>a DEF WaitEvent, SettleSet, At
    <2>4. events' = events \cup {f} /\ f \notin events
      BY <1>14, <1>0, <1>a, <2>0, <2>a DEF WaitEvent
    <2>5. mPending' = mPending + 1 /\ UNCHANGED <<mActive, mIdle>>
      BY <1>14, <1>0, <1>a, <2>0, <2>a DEF WaitEvent
    <2> QED
      BY <1>c, <2>1, <2>2, <2>3, <2>4, <2>5, SetsFinite, CardinalityWith
  <1>15. ASSUME NEW w \in Workers, NEW f \in Fibers, Spawn(w, f) PROVE Agree'
    <2>1. ActiveSet' = ActiveSet /\ IdleSet' = IdleSet /\ SettleSet' = SettleSet
      BY <1>15, <1>0, <1>a
         DEF Spawn, ActiveSet, IdleSet, SettleSet, IdlePC, At, scheduleLock
    <2> QED
      BY <1>15, <1>c, <2>1 DEF Spawn
  <1>16. ASSUME NEW w \in Workers, CheckTimers(w) PROVE Agree'
    <2>1. ActiveSet' = ActiveSet /\ IdleSet' = IdleSet /\ SettleSet' = SettleSet
      BY <1>16, <1>0, <1>a DEF CheckTimers, ActiveSet, IdleSet, SettleSet, IdlePC, At
    <2> QED
      BY <1>16, <1>c, <2>1 DEF CheckTimers
  <1>17. ASSUME NEW w \in Workers, CheckPending(w) PROVE Agree'
    <2>1. ActiveSet' = ActiveSet /\ IdleSet' = IdleSet /\ SettleSet' = SettleSet
      BY <1>17, <1>0, <1>a DEF CheckPending, ActiveSet, IdleSet, SettleSet, IdlePC, At
    <2> QED
      BY <1>17, <1>c, <2>1 DEF CheckPending
  <1>18. ASSUME NEW w \in Workers, CheckDrained(w) PROVE Agree'
    <2>1. ActiveSet' = ActiveSet /\ IdleSet' = IdleSet /\ SettleSet' = SettleSet
      BY <1>18, <1>0, <1>a DEF CheckDrained, ActiveSet, IdleSet, SettleSet, IdlePC, At
    <2> QED
      BY <1>18, <1>c, <2>1 DEF CheckDrained
  <1>19. ASSUME NEW w \in Workers, EpollReturn(w) PROVE Agree'
    <2>1. ActiveSet' = ActiveSet /\ IdleSet' = IdleSet /\ SettleSet' = SettleSet
      BY <1>19, <1>0, <1>a DEF EpollReturn, ActiveSet, IdleSet, SettleSet, IdlePC, At
    <2> QED
      BY <1>19, <1>c, <2>1 DEF EpollReturn
  <1>20. ASSUME NEW w \in Workers, EpollTimeout(w) PROVE Agree'
    <2>1. ActiveSet' = ActiveSet /\ IdleSet' = IdleSet /\ SettleSet' = SettleSet
      BY <1>20, <1>0, <1>a DEF EpollTimeout, ActiveSet, IdleSet, SettleSet, IdlePC, At
    <2> QED
      BY <1>20, <1>c, <2>1 DEF EpollTimeout
  <1>21. ASSUME NEW w \in Workers, ListExpiredCb(w) PROVE Agree'
    <2>1. ActiveSet' = ActiveSet /\ IdleSet' = IdleSet /\ SettleSet' = SettleSet
      BY <1>21, <1>0, <1>a DEF ListExpiredCb, ActiveSet, IdleSet, SettleSet, IdlePC, At
    <2> QED
      BY <1>21, <1>c, <2>1 DEF ListExpiredCb
  <1>22. ASSUME NEW w \in Workers, NEW f \in Fibers, ScheduleCb(w, f) PROVE Agree'
    <2>1. ActiveSet' = ActiveSet /\ IdleSet' = IdleSet /\ SettleSet' = SettleSet
      BY <1>22, <1>0, <1>a
         DEF ScheduleCb, ActiveSet, IdleSet, SettleSet, IdlePC, At,
             scheduleLock
    <2> QED
      BY <1>22, <1>c, <2>1 DEF ScheduleCb
  <1>23. ASSUME NEW w \in Workers, NEW f \in Fibers, Trigger(w, f) PROVE Agree'
    <2>1. ActiveSet' = ActiveSet
      BY <1>23, <1>0, <1>a DEF Trigger, ActiveSet
    <2>2. IdleSet' = IdleSet
      BY <1>23, <1>0, <1>a DEF Trigger, IdleSet, IdlePC, At, scheduleLock
    <2>3. SettleSet' = SettleSet \cup {w} /\ w \notin SettleSet
      BY <1>23, <1>0, <1>a DEF Trigger, SettleSet, At, scheduleLock
    <2>4. events' = events \ {f} /\ f \in events
      BY <1>23, <1>0, <1>a DEF Trigger, Shape
    <2>5. UNCHANGED <<mActive, mIdle, mPending>>
      BY <1>23, <1>0, <1>a DEF Trigger
    <2> QED
      BY <1>c, <2>1, <2>2, <2>3, <2>4, <2>5, SetsFinite, CardinalityWith
  <1>24. ASSUME NEW w \in Workers, Drain(w) PROVE Agree'
    <2>1. ActiveSet' = ActiveSet /\ IdleSet' = IdleSet /\ SettleSet' = SettleSet
      BY <1>24, <1>0, <1>a DEF Drain, ActiveSet, IdleSet, SettleSet, IdlePC, At
    <2> QED
      BY <1>24, <1>c, <2>1 DEF Drain
  <1>25. ASSUME NEW w \in Workers, Settle(w) PROVE Agree'
    <2>1. ActiveSet' = ActiveSet
      BY <1>25, <1>0, <1>a DEF Settle, ActiveSet
    <2>2. IdleSet' = IdleSet
      BY <1>25, <1>0, <1>a DEF Settle, IdleSet, IdlePC, At
    <2>3. SettleSet' = SettleSet \ {w} /\ w \in SettleSet
      BY <1>25, <1>0, <1>a DEF Settle, SettleSet, At
    <2>4. events' = events
      BY <1>25, <1>0, <1>a DEF Settle
    <2>5. mPending' = mPending - 1 /\ UNCHANGED <<mActive, mIdle>>
      BY <1>25, <1>0, <1>a DEF Settle
    <2> QED
      BY <1>c, <2>1, <2>2, <2>3, <2>4, <2>5, SetsFinite, CardinalityWith
  <1>26. ASSUME NEW w \in Workers, IdleYield(w) PROVE Agree'
    <2>1. ActiveSet' = ActiveSet /\ IdleSet' = IdleSet /\ SettleSet' = SettleSet
      BY <1>26, <1>0, <1>a DEF IdleYield, ActiveSet, IdleSet, SettleSet, IdlePC, At
    <2> QED
      BY <1>26, <1>c, <2>1 DEF IdleYield
  <1>27. ASSUME NEW w \in Workers, Unidle(w) PROVE Agree'
    <2>1. ActiveSet' = ActiveSet
      BY <1>27, <1>0, <1>a DEF Unidle, ActiveSet
    <2>2. IdleSet' = IdleSet \ {w} /\ w \in IdleSet
      BY <1>27, <1>0, <1>a DEF Unidle, IdleSet, IdlePC, At
    <2>3. SettleSet' = SettleSet
      BY <1>27, <1>0, <1>a DEF Unidle, SettleSet, At
    <2>4. events' = events
      BY <1>27, <1>0, <1>a DEF Unidle
    <2>5. mIdle' = mIdle - 1 /\ UNCHANGED <<mActive, mPending>>
      BY <1>27, <1>0, <1>a DEF Unidle
    <2> QED
      BY <1>c, <2>1, <2>2, <2>3, <2>4, <2>5, SetsFinite, CardinalityWith
  <1>28. ASSUME NEW t \in Threads, TickleCheck(t) PROVE Agree'
    <2>1. ActiveSet' = ActiveSet /\ IdleSet' = IdleSet /\ SettleSet' = SettleSet
      BY <1>28, <1>0, <1>a
         DEF TickleCheck, ActiveSet, IdleSet, SettleSet, IdlePC, At, Shape,
             TicklePC
    <2> QED
      BY <1>28, <1>c, <2>1 DEF TickleCheck
  <1>29. ASSUME NEW t \in Threads, TickleWrite(t) PROVE Agree'
    <2>1. ActiveSet' = ActiveSet /\ IdleSet' = IdleSet /\ SettleSet' = SettleSet
      BY <1>29, <1>0, <1>a
         DEF TickleWrite, ActiveSet, IdleSet, SettleSet, IdlePC, At, Shape,
             TicklePC
    <2> QED
      BY <1>29, <1>c, <2>1 DEF TickleWrite
  <1>30. ASSUME NEW f \in Fibers, TimerDue(f) PROVE Agree'
    <2>1. ActiveSet' = ActiveSet /\ IdleSet' = IdleSet /\ SettleSet' = SettleSet
      BY <1>30, <1>0, <1>a DEF TimerDue, ActiveSet, IdleSet, SettleSet, IdlePC, At
    <2> QED
      BY <1>30, <1>c, <2>1 DEF TimerDue
  <1>31. ASSUME NEW f \in Fibers, EventReady(f) PROVE Agree'
    <2>1. ActiveSet' = ActiveSet /\ IdleSet' = IdleSet /\ SettleSet' = SettleSet
      BY <1>31, <1>0, <1>a DEF EventReady, ActiveSet, IdleSet, SettleSet, IdlePC, At
    <2> QED
      BY <1>31, <1>c, <2>1 DEF EventReady
  <1>32. ASSUME UNCHANGED vars PROVE Agree'
    <2>1. ActiveSet' = ActiveSet /\ IdleSet' = IdleSet /\ SettleSet' = SettleSet
      BY <1>32 DEF vars, ActiveSet, IdleSet, SettleSet, At
    <2> QED
      BY <1>32, <1>c, <2>1 DEF vars
  <1> HIDE DEF Agree
  <1>q. Agree'
    BY <1>1, <1>2, <1>3, <1>4, <1>5, <1>6, <1>7, <1>8, <1>9, <1>10, <1>11,
       <1>12, <1>13, <1>14, <1>15, <1>16, <1>17, <1>18, <1>19, <1>20, <1>21,
       <1>22, <1>23, <1>24, <1>25, <1>26, <1>27, <1>28, <1>29, <1>30, <1>31,
       <1>32
       DEF Next, MainStep, RunStep, BlockStep, IdleStep, TickleStep, EnvStep,
           Terminated
  <1> QED
    BY <1>q DEF Agree

-----------------------------------------------------------------------------
(* The five invariants of the runs, for every number of workers, fibers    *)
(* and waits.                                                              *)

LEMMA InitInv == Init => IndInv
  <1> SUFFICES ASSUME Init PROVE IndInv
    OBVIOUS
  <1> USE DEF Init
  <1>1. TypeOK
    <2>1. mTasks \in Seq(ScheduleTask)
      BY EmptySeq
    <2>2. waits \in [Fibers -> 0..MaxWaits]
      BY FibersAssumption
    <2>3. /\ pc \in [Threads -> PC] /\ cont \in [Threads -> PC]
          /\ task \in [Threads -> ScheduleTask \cup {NoTask}]
          /\ idleTerm \in [Threads -> BOOLEAN]
          /\ fiberState \in [Fibers -> {"READY", "RUNNING", "TERM"}]
          /\ fiberLock \in [Fibers -> Workers \cup {NoThread}]
          /\ cbs \in [Threads -> SUBSET Fibers]
          /\ got \in [Threads -> SUBSET Fibers]
          /\ gotTickle \in [Threads -> BOOLEAN]
      BY DEF PC
    <2> QED
      BY <2>1, <2>2, <2>3 DEF TypeOK
  <1>2. Shape
    <2>1. IsFiniteSet(events)
      BY FS_EmptySet
    <2> QED
      BY <2>1, ThreadsAssumption
         DEF Shape, Workers, Threads, At, TicklePC, MainPC, RunPC
  <1>3. Wake
    <2>1. 1..Len(mTasks) = {} /\ spawned = {} /\ timers = {} /\ events = {}
      <3>1. Len(mTasks) = 0
        BY EmptySeq
      <3> QED
        BY <3>1
    <2>2. \A w \in Workers : At(w) \notin {"lock", "cb", "run"} /\ cbs[w] = {}
      BY WorkersAreThreads DEF At
    <2>5. fiberState = [f \in Fibers |-> "READY"]
      OBVIOUS
    <2> HIDE DEF Init
    <2>3. UniqueEntry /\ UniqueHolder /\ UniqueExpiry
      BY <2>1, <2>2 DEF UniqueEntry, UniqueHolder, UniqueExpiry, Holds
    <2>4. ASSUME NEW f \in Fibers PROVE OnePlace(f)
      <3>1. ~Queued(f) /\ ~Held(f) /\ ~Expired(f) /\ ~Live(f)
        BY <2>1, <2>2 DEF Queued, Held, Holds, Expired, Live
      <3> QED
        BY <2>1, <2>5, <3>1 DEF OnePlace
    <2> QED
      BY <2>3, <2>4 DEF Wake
  <1>4. OneRunner
    BY WorkersAreThreads, ThreadsAssumption DEF OneRunner, At
  <1>5. CountersAgree
    <2>1. ActiveSet = {} /\ IdleSet = {} /\ SettleSet = {} /\ events = {}
      BY WorkersAreThreads DEF ActiveSet, IdleSet, SettleSet, At, IdlePC
    <2> QED
      BY <2>1, FS_EmptySet, CountersOfSets
  <1> QED
    BY <1>1, <1>2, <1>3, <1>4, <1>5 DEF IndInv

LEMMA NextInv == IndInv /\ [Next]_vars => IndInv'
  <1> SUFFICES ASSUME IndInv, [Next]_vars PROVE IndInv'
    OBVIOUS
  <1>1. Next \/ UNCHANGED vars
    OBVIOUS
  <1>2. CASE Next
    <2>1. TypeOK' /\ Wake' /\ OneRunner' /\ CountersAgree'
      BY <1>2, TypeStep, WakeStep, RunnerStep, CountStep
    <2>2. Shape'
      BY <1>2, <2>1, ShapeStep
    <2> QED
      BY <2>1, <2>2 DEF IndInv
  <1>3. CASE UNCHANGED vars
    BY <1>3 DEF vars, queueVars, threadVars, fiberVars, waitVars, epollVars,
                IndInv, TypeOK, Shape, Wake, OneRunner, CountersAgree,
                UniqueEntry, UniqueHolder, UniqueExpiry, OnePlace, Queued,
                Held, Holds, Expired, Live, At
  <1> QED
    BY <1>1, <1>2, <1>3

(* The inductive invariant holds in every reachable state.                 *)
THEOREM Invariance == Spec => []IndInv
  <1> QED
    BY InitInv, NextInv, PTL DEF Spec

(* The queue, heap, event table and counters keep their types; in          *)
(* particular no unsigned counter of Scheduler or IOManager wraps below    *)
(* zero, whatever the threads interleave.                                  *)
THEOREM TypeCorrect == Spec => []TypeOK
  <1>1. IndInv => TypeOK
    BY DEF IndInv
  <1> QED
    BY <1>1, Invariance, PTL

(* No two threads execute one fiber: Fiber::m_mutex and Fiber::m_state     *)
(* agree with what the workers do.                                         *)
THEOREM FiberRunByOne == Spec => []OneRunner
  <1>1. IndInv => OneRunner
    BY DEF IndInv
  <1> QED
    BY <1>1, Invariance, PTL

(* assert(m_state == READY) in Fiber::resume never fails, also when a      *)
(* wake-up overtakes the yield of the fiber it wakes.                      *)
THEOREM ResumeAssertion == Spec => []ResumeReady
  <1>1. IndInv => ResumeReady
    BY HeldIsReady DEF IndInv
  <1> QED
    BY <1>1, Invariance, PTL

(* The three atomic counters always agree with the threads and the event   *)
(* table.                                                                  *)
THEOREM CountersCorrect == Spec => []CountersAgree
  <1>1. IndInv => CountersAgree
    BY DEF IndInv
  <1> QED
    BY <1>1, Invariance, PTL

-----------------------------------------------------------------------------
(* What stop() leaves behind.                                              *)

(* stop() has returned only when every thread of the pool has left run().  *)
Joined ==
  /\ \A t \in Threads : cont[t] # "done"
  /\ pc[Main] = "done" => \A w \in Pool : pc[w] = "exit"

(* When stop() has returned, nothing is under way: the counters are down,  *)
(* no fiber is running or locked, and no worker has taken along a queue    *)
(* entry, an expired callback or an event.  What stop() leaves undone      *)
(* (StopDrains does not hold) it leaves in its place: every fiber that has *)
(* not ended is in the queue, the heap or the event table.                 *)
StopQuiet ==
  pc[Main] = "done" =>
    /\ mActive = 0 /\ mIdle = 0 /\ mPending = Cardinality(events)
    /\ \A f \in Fibers :
         /\ fiberState[f] # "RUNNING" /\ fiberLock[f] = NoThread
         /\ Live(f) => Queued(f) \/ f \in timers \/ f \in events

(* Every step keeps the threads joined: none comes back that has left.     *)
LEMMA JoinedStep ==
  ASSUME IndInv, Joined, [Next]_vars
  PROVE  Joined'
  <1> USE DEF Joined, Goto, queueVars, threadVars, fiberVars, waitVars, epollVars
  <1>0. /\ Workers \subseteq Threads /\ Main \in Threads
        /\ Pool \subseteq Threads /\ Main \notin Pool
    BY WorkersAreThreads, ThreadsAssumption DEF Threads
  <1>a. pc \in [Threads -> PC] /\ cont \in [Threads -> PC]
    BY DEF IndInv, TypeOK
  <1>1. ASSUME Stop PROVE Joined'
    BY <1>1, <1>0, <1>a DEF Stop
  <1>2. ASSUME StopTickle PROVE Joined'
    BY <1>2, <1>0, <1>a DEF StopTickle
  <1>3. ASSUME StopRun PROVE Joined'
    BY <1>3, <1>0, <1>a DEF StopRun
  <1>4. ASSUME Join PROVE Joined'
    BY <1>4, <1>0, <1>a DEF Join
  <1>5. ASSUME NEW f \in Fibers, MainSchedule(f) PROVE Joined'
    BY <1>5, <1>0, <1>a DEF MainSchedule, scheduleLock
  <1>6. ASSUME NEW w \in Workers, Fetch(w) PROVE Joined'
    BY <1>6, <1>0, <1>a DEF Fetch, Dispatch
  <1>7. ASSUME NEW w \in Workers, LockFiber(w) PROVE Joined'
    BY <1>7, <1>0, <1>a DEF LockFiber
  <1>8. ASSUME NEW w \in Workers, RunCb(w) PROVE Joined'
    BY <1>8, <1>0, <1>a DEF RunCb, scheduleLock
  <1>9. ASSUME NEW w \in Workers, Dec(w) PROVE Joined'
    BY <1>9, <1>0, <1>a DEF Dec
  <1>10. ASSUME NEW w \in Workers, GoIdle(w) PROVE Joined'
    BY <1>10, <1>0, <1>a DEF GoIdle
  <1>11. ASSUME NEW w \in Workers, Yield(w) PROVE Joined'
    BY <1>11, <1>0, <1>a DEF Yield
  <1>12. ASSUME NEW w \in Workers, Finish(w) PROVE Joined'
    BY <1>12, <1>0, <1>a DEF Finish
  <1>13. ASSUME NEW w \in Workers, Sleep(w) PROVE Joined'
    BY <1>13, <1>0, <1>a DEF Sleep
  <1>14. ASSUME NEW w \in Workers, WaitEvent(w) PROVE Joined'
    BY <1>14, <1>0, <1>a DEF WaitEvent
  <1>15. ASSUME NEW w \in Workers, NEW f \in Fibers, Spawn(w, f) PROVE Joined'
    BY <1>15, <1>0, <1>a DEF Spawn, scheduleLock
  <1>16. ASSUME NEW w \in Workers, CheckTimers(w) PROVE Joined'
    BY <1>16, <1>0, <1>a DEF CheckTimers
  <1>17. ASSUME NEW w \in Workers, CheckPending(w) PROVE Joined'
    BY <1>17, <1>0, <1>a DEF CheckPending
  <1>18. ASSUME NEW w \in Workers, CheckDrained(w) PROVE Joined'
    BY <1>18, <1>0, <1>a DEF CheckDrained
  <1>19. ASSUME NEW w \in Workers, EpollReturn(w) PROVE Joined'
    BY <1>19, <1>0, <1>a DEF EpollReturn
  <1>20. ASSUME NEW w \in Workers, EpollTimeout(w) PROVE Joined'
    BY <1>20, <1>0, <1>a DEF EpollTimeout
  <1>21. ASSUME NEW w \in Workers, ListExpiredCb(w) PROVE Joined'
    BY <1>21, <1>0, <1>a DEF ListExpiredCb
  <1>22. ASSUME NEW w \in Workers, NEW f \in Fibers, ScheduleCb(w, f) PROVE Joined'
    BY <1>22, <1>0, <1>a DEF ScheduleCb, scheduleLock
  <1>23. ASSUME NEW w \in Workers, NEW f \in Fibers, Trigger(w, f) PROVE Joined'
    BY <1>23, <1>0, <1>a DEF Trigger, scheduleLock
  <1>24. ASSUME NEW w \in Workers, Drain(w) PROVE Joined'
    BY <1>24, <1>0, <1>a DEF Drain
  <1>25. ASSUME NEW w \in Workers, Settle(w) PROVE Joined'
    BY <1>25, <1>0, <1>a DEF Settle
  <1>26. ASSUME NEW w \in Workers, IdleYield(w) PROVE Joined'
    BY <1>26, <1>0, <1>a DEF IdleYield
  <1>27. ASSUME NEW w \in Workers, Unidle(w) PROVE Joined'
    BY <1>27, <1>0, <1>a DEF Unidle
  <1>28. ASSUME NEW t \in Threads, TickleCheck(t) PROVE Joined'
    BY <1>28, <1>0, <1>a DEF TickleCheck
  <1>29. ASSUME NEW t \in Threads, TickleWrite(t) PROVE Joined'
    BY <1>29, <1>0, <1>a DEF TickleWrite
  <1>30. ASSUME NEW f \in Fibers, TimerDue(f) PROVE Joined'
    BY <1>30, <1>0, <1>a DEF TimerDue
  <1>31. ASSUME NEW f \in Fibers, EventReady(f) PROVE Joined'
    BY <1>31, <1>0, <1>a DEF EventReady
  <1> QED
    BY <1>1, <1>2, <1>3, <1>4, <1>5, <1>6, <1>7, <1>8, <1>9, <1>10,
       <1>11, <1>12, <1>13, <1>14, <1>15, <1>16, <1>17, <1>18,
       <1>19, <1>20, <1>21, <1>22, <1>23, <1>24, <1>25, <1>26,
       <1>27, <1>28, <1>29, <1>30, <1>31
       DEF Next, MainStep, RunStep, BlockStep, IdleStep, TickleStep, EnvStep,
           Terminated, vars

(* stop() returns to a scheduler at rest, also when it returns early.      *)
THEOREM StopQuietHolds == Spec => []StopQuiet
  <1>1. Init => Joined
    BY WorkersAreThreads DEF Init, Joined
  <1>2. ASSUME IndInv, Joined PROVE StopQuiet
    <2> SUFFICES ASSUME pc[Main] = "done" PROVE
          /\ mActive = 0 /\ mIdle = 0 /\ mPending = Cardinality(events)
          /\ \A f \in Fibers :
               /\ fiberState[f] # "RUNNING" /\ fiberLock[f] = NoThread
               /\ Live(f) => Queued(f) \/ f \in timers \/ f \in events
      BY DEF StopQuiet
    <2>1. \A w \in Workers : pc[w] \in {"exit", "done"} /\ At(w) = pc[w]
      BY <1>2 DEF Joined, Workers, At
    <2>2. \A w \in Workers : At(w) \notin RunPC /\ At(w) \notin IdlePC
      BY <2>1 DEF RunPC, IdlePC
    <2>3. \A w \in Workers : task[w] = NoTask /\ cbs[w] = {}
      BY <1>2, <2>1, <2>2 DEF IndInv, Shape
    <2>4. mActive = 0 /\ mIdle = 0
      <3>1. /\ {w \in Workers : task[w] # NoTask} = {}
            /\ {w \in Workers : At(w) \in IdlePC} = {}
        BY <2>2, <2>3
      <3> QED
        BY <1>2, <3>1, FS_EmptySet DEF IndInv, CountersAgree
    <2>5. mPending = Cardinality(events)
      <3>1. {w \in Workers : At(w) = "settle"} = {}
        BY <2>1
      <3>2. Cardinality(events) \in Nat
        BY <1>2, FS_CardinalityType DEF IndInv, Shape
      <3>3. mPending = Cardinality(events)
                         + Cardinality({w \in Workers : At(w) = "settle"})
        BY <1>2 DEF IndInv, CountersAgree
      <3>4. Cardinality({w \in Workers : At(w) = "settle"}) = 0
        BY <3>1, FS_EmptySet
      <3> QED
        BY <3>2, <3>3, <3>4
    <2>6. ASSUME NEW f \in Fibers
          PROVE  /\ fiberState[f] # "RUNNING" /\ fiberLock[f] = NoThread
                 /\ Live(f) => Queued(f) \/ f \in timers \/ f \in events
      <3>1. fiberLock[f] \in Workers \cup {NoThread}
        BY <1>2 DEF IndInv, TypeOK
      <3>2. fiberLock[f] \notin Workers
        BY <1>2, <2>1 DEF IndInv, OneRunner
      <3>3. fiberState[f] # "RUNNING"
        BY <1>2, <3>1, <3>2 DEF IndInv, OneRunner
      <3>4. ~Held(f) /\ ~Expired(f)
        BY <2>1, <2>3 DEF Held, Holds, Expired
      <3>5. Live(f) => Queued(f) \/ f \in timers \/ f \in events
        BY <1>2, <3>4 DEF IndInv, Wake, OnePlace
      <3> QED
        BY <3>1, <3>2, <3>3, <3>5
    <2> QED
      BY <2>4, <2>5, <2>6
  <1> QED
    BY <1>1, <1>2, Invariance, JoinedStep, PTL DEF Spec

(* Exactly one queue entry, worker, expired callback, timer or event       *)
(* stands for a live fiber, none for another.                              *)
LEMMA WakeIsOne ==
  ASSUME TypeOK, Wake
  PROVE  OneWakeUp
  <1> SUFFICES ASSUME NEW f \in Fibers
               PROVE  IF Live(f) THEN IsSingleton(WakePlaces(f))
                                 ELSE WakePlaces(f) = {}
    BY DEF OneWakeUp
  <1> DEFINE Q == {<<"queue", i>> : i \in {k \in 1..Len(mTasks) : mTasks[k].fiber = f}}
             H == {<<"worker", w>> : w \in {v \in Workers : Holds(v, f)}}
             X == {<<"expired", w>> : w \in {v \in Workers : f \in cbs[v]}}
             T == {<<"heap", g>> : g \in timers \cap {f}}
             E == {<<"epoll", g>> : g \in events \cap {f}}
  <1>1. WakePlaces(f) = Q \cup H \cup X \cup T \cup E
    BY DEF WakePlaces
  <1>2. /\ Queued(f) => \E p : Q = {p}
        /\ ~Queued(f) => Q = {}
    <2>1. ASSUME NEW a \in 1..Len(mTasks), mTasks[a].fiber = f PROVE Q = {<<"queue", a>>}
      <3>1. \A b \in 1..Len(mTasks) : mTasks[b].fiber = f => b = a
        BY <2>1 DEF Wake, UniqueEntry
      <3> QED
        BY <2>1, <3>1
    <2>2. ~Queued(f) => Q = {}
      BY DEF Queued
    <2> HIDE DEF Q
    <2> QED
      BY <2>1, <2>2 DEF Queued
  <1>3. /\ Held(f) => \E p : H = {p}
        /\ ~Held(f) => H = {}
    <2>1. ASSUME NEW a \in Workers, Holds(a, f) PROVE H = {<<"worker", a>>}
      <3>1. \A b \in Workers : Holds(b, f) => b = a
        BY <2>1 DEF Wake, UniqueHolder
      <3> QED
        BY <2>1, <3>1
    <2>2. ~Held(f) => H = {}
      BY DEF Held
    <2> HIDE DEF H
    <2> QED
      BY <2>1, <2>2 DEF Held
  <1>4. /\ Expired(f) => \E p : X = {p}
        /\ ~Expired(f) => X = {}
    <2>1. ASSUME NEW a \in Workers, f \in cbs[a] PROVE X = {<<"expired", a>>}
      <3>1. \A b \in Workers : f \in cbs[b] => b = a
        BY <2>1 DEF Wake, UniqueExpiry
      <3> QED
        BY <2>1, <3>1
    <2>2. ~Expired(f) => X = {}
      BY DEF Expired
    <2> HIDE DEF X
    <2> QED
      BY <2>1, <2>2 DEF Expired
  <1>5. /\ f \in timers => \E p : T = {p}
        /\ f \notin timers => T = {}
    OBVIOUS
  <1>6. /\ f \in events => \E p : E = {p}
        /\ f \notin events => E = {}
    OBVIOUS
  <1>7. OnePlace(f)
    BY DEF Wake
  <1> HIDE DEF Q, H, X, T, E
  <1>8. CASE Live(f)
    <2>1. \E p : Q \cup H \cup X \cup T \cup E = {p}
      <3>1. CASE Queued(f)
        BY <3>1, <1>2, <1>3, <1>4, <1>5, <1>6, <1>7 DEF OnePlace
      <3>2. CASE Held(f)
        BY <3>2, <1>2, <1>3, <1>4, <1>5, <1>6, <1>7 DEF OnePlace
      <3>3. CASE Expired(f)
        BY <3>3, <1>2, <1>3, <1>4, <1>5, <1>6, <1>7 DEF OnePlace
      <3>4. CASE f \in timers
        BY <3>4, <1>2, <1>3, <1>4, <1>5, <1>6, <1>7 DEF OnePlace
      <3>5. CASE f \in events
        BY <3>5, <1>2, <1>3, <1>4, <1>5, <1>6, <1>7 DEF OnePlace
      <3> QED
        BY <1>7, <1>8, <3>1, <3>2, <3>3, <3>4, <3>5 DEF OnePlace
    <2> QED
      BY <1>1, <1>8, <2>1 DEF IsSingleton
  <1>9. CASE ~Live(f)
    BY <1>1, <1>2, <1>3, <1>4, <1>5, <1>6, <1>7, <1>9 DEF OnePlace
  <1> QED
    BY <1>8, <1>9

(* No fiber is lost and none is resumed twice for one wait.                *)
THEOREM WakeUpOnce == Spec => []OneWakeUp
  <1>1. IndInv => OneWakeUp
    BY WakeIsOne DEF IndInv
  <1> QED
    BY <1>1, Invariance, PTL

-----------------------------------------------------------------------------
(* The refinement of TaskPool: the initial states map to the initial       *)
(* state, and every step is a step of TaskPool or leaves its variables     *)
(* unchanged.                                                              *)

QueuedCb(f) ==
  \E i \in 1..Len(mTasks) : mTasks[i].kind = "cb" /\ mTasks[i].fiber = f

Terminal(f) == fiberState[f] = "TERM"

LEMMA CbPendingParts ==
  ASSUME NEW f
  PROVE  CbPending(f) <=> Expired(f) \/ QueuedCb(f) \/ WorkerAt(f, "cb")
  BY DEF CbPending, Expired, QueuedCb

-----------------------------------------------------------------------------
(* The status of a fiber that sits in a given place.                       *)

(* Only the worker that has taken a fiber is at "run" or "cb" with it.     *)
LEMMA WorkerAtIsHeld ==
  ASSUME TypeOK, Shape, NEW f, NEW l \in {"lock", "run", "cb"}
  PROVE  /\ WorkerAt(f, l) <=> \E w \in Workers : Holds(w, f) /\ At(w) = l
         /\ WorkerAt(f, l) => Held(f)
  BY TaskOfRunner DEF WorkerAt, Holds, Held, RunPC

LEMMA StatusOfNew ==
  ASSUME NEW f, f \notin spawned
  PROVE  FiberStatus(f) = "new"
  BY DEF FiberStatus

LEMMA QueuedCbIsQueued ==
  ASSUME NEW f, QueuedCb(f)
  PROVE  Queued(f)
  BY DEF QueuedCb, Queued

(* The fiber whose entry or worker is not at a callback is ready.          *)
LEMMA StatusOfQueued ==
  ASSUME TypeOK, Shape, Wake, NEW f \in Fibers, Queued(f)
  PROVE  FiberStatus(f) = IF QueuedCb(f) THEN "waiting" ELSE "ready"
  <1>1. /\ Live(f) /\ ~Held(f) /\ ~Expired(f)
        /\ f \notin timers /\ f \notin events
    BY DEF Wake, OnePlace
  <1>2. ~WorkerAt(f, "run") /\ ~WorkerAt(f, "cb")
    BY <1>1, WorkerAtIsHeld
  <1>3. CbPending(f) <=> QueuedCb(f)
    BY <1>1, <1>2, CbPendingParts
  <1> QED
    BY <1>1, <1>2, <1>3 DEF FiberStatus, Live

LEMMA StatusOfHeld ==
  ASSUME TypeOK, Shape, Wake, NEW f \in Fibers, NEW w \in Workers, Holds(w, f)
  PROVE  FiberStatus(f) = CASE At(w) = "run" -> "running"
                            [] At(w) = "cb" -> "waiting"
                            [] At(w) = "lock" -> "ready"
  <1>1. /\ Live(f) /\ ~Queued(f) /\ ~Expired(f)
        /\ f \notin timers /\ f \notin events
    BY DEF Wake, OnePlace, Held
  <1>2. \A v \in Workers : Holds(v, f) => v = w
    BY DEF Wake, UniqueHolder
  <1>3. /\ WorkerAt(f, "run") <=> At(w) = "run"
        /\ WorkerAt(f, "cb") <=> At(w) = "cb"
    BY <1>2, WorkerAtIsHeld
  <1>4. CbPending(f) <=> At(w) = "cb"
    BY <1>1, <1>3, CbPendingParts, QueuedCbIsQueued
  <1>5. At(w) \in {"run", "cb", "lock"}
    BY DEF Holds
  <1> QED
    BY <1>1, <1>3, <1>4, <1>5 DEF FiberStatus, Live

LEMMA StatusOfWaiting ==
  ASSUME TypeOK, Shape, Wake, NEW f \in Fibers,
         Expired(f) \/ f \in timers \/ f \in events
  PROVE  FiberStatus(f) = "waiting"
  <1>1. Live(f) /\ ~Held(f)
    BY DEF Wake, OnePlace
  <1>2. ~WorkerAt(f, "run")
    BY <1>1, WorkerAtIsHeld
  <1> QED
    BY <1>1, <1>2, CbPendingParts DEF FiberStatus, Live

LEMMA StatusOfDone ==
  ASSUME NEW f, f \in spawned, fiberState[f] = "TERM"
  PROVE  FiberStatus(f) = "done"
  BY DEF FiberStatus

(* What the places of a fiber say about its status, in one formula that    *)
(* can be used before and after a step.                                    *)
StatusFacts ==
  \A f \in Fibers :
    /\ f \notin spawned => FiberStatus(f) = "new"
    /\ f \in spawned /\ Terminal(f) => FiberStatus(f) = "done"
    /\ Queued(f) => FiberStatus(f) = IF QueuedCb(f) THEN "waiting" ELSE "ready"
    /\ Expired(f) \/ f \in timers \/ f \in events => FiberStatus(f) = "waiting"
    /\ \A w \in Workers :
         Holds(w, f) => /\ At(w) = "run" => FiberStatus(f) = "running"
                        /\ At(w) = "cb" => FiberStatus(f) = "waiting"
                        /\ At(w) = "lock" => FiberStatus(f) = "ready"

LEMMA StatusKnown == TypeOK /\ Shape /\ Wake => StatusFacts
  BY StatusOfNew, StatusOfDone, StatusOfQueued, StatusOfWaiting, StatusOfHeld
     DEF StatusFacts, Terminal

-----------------------------------------------------------------------------
(* How a step changes the statuses.                                        *)

\* Nothing the status of g depends on changes.
Untouched(g) ==
  /\ g \in spawned' <=> g \in spawned
  /\ Terminal(g)' <=> Terminal(g)
  /\ g \in timers' <=> g \in timers
  /\ g \in events' <=> g \in events
  /\ Expired(g)' <=> Expired(g)
  /\ QueuedCb(g)' <=> QueuedCb(g)
  /\ WorkerAt(g, "run")' <=> WorkerAt(g, "run")
  /\ WorkerAt(g, "cb")' <=> WorkerAt(g, "cb")

LEMMA StatusSame ==
  ASSUME NEW g, Untouched(g)
  PROVE  FiberStatus(g)' = FiberStatus(g)
  BY DEF Untouched, FiberStatus, CbPending, Expired, QueuedCb, Terminal

StatusOf == [f \in Fibers |-> FiberStatus(f)]

LEMMA StatusMoves ==
  ASSUME NEW f \in Fibers, \A g \in Fibers \ {f} : Untouched(g)
  PROVE  StatusOf' = [StatusOf EXCEPT ![f] = FiberStatus(f)']
  BY StatusSame DEF StatusOf

LEMMA QueuedCbAppended ==
  ASSUME TypeOK, NEW e \in ScheduleTask, mTasks' = Append(mTasks, e)
  PROVE  \A g \in Fibers :
           QueuedCb(g)' <=> QueuedCb(g) \/ (e.kind = "cb" /\ e.fiber = g)
  <1>1. /\ Len(mTasks) \in Nat /\ Len(mTasks') = Len(mTasks) + 1
        /\ \A i \in 1..Len(mTasks) : mTasks'[i] = mTasks[i]
        /\ mTasks'[Len(mTasks) + 1] = e
    BY AppendProperties, LenProperties DEF TypeOK
  <1>2. \A i \in 1..Len(mTasks') : i \in 1..Len(mTasks) \/ i = Len(mTasks) + 1
    BY <1>1
  <1>3. ASSUME NEW g \in Fibers
        PROVE  QueuedCb(g)' <=> QueuedCb(g) \/ (e.kind = "cb" /\ e.fiber = g)
    <2>1. ASSUME QueuedCb(g)'
          PROVE  QueuedCb(g) \/ (e.kind = "cb" /\ e.fiber = g)
      <3>1. PICK i \in 1..Len(mTasks') :
              mTasks'[i].kind = "cb" /\ mTasks'[i].fiber = g
        BY <2>1 DEF QueuedCb
      <3> QED
        BY <1>1, <1>2, <3>1 DEF QueuedCb
    <2>2. ASSUME QueuedCb(g) PROVE QueuedCb(g)'
      BY <1>1, <2>2 DEF QueuedCb
    <2>3. ASSUME e.kind = "cb", e.fiber = g PROVE QueuedCb(g)'
      BY <1>1, <2>3 DEF QueuedCb
    <2> QED
      BY <2>1, <2>2, <2>3
  <1> QED
    BY <1>3

LEMMA QueuedCbRemoved ==
  ASSUME TypeOK, NEW i \in 1..Len(mTasks), mTasks' = RemoveAt(mTasks, i)
  PROVE  \A g \in Fibers \ {mTasks[i].fiber} : QueuedCb(g)' <=> QueuedCb(g)
  <1>1. /\ Len(mTasks) \in Nat /\ Len(mTasks') = Len(mTasks) - 1
        /\ \A j \in 1..(Len(mTasks) - 1) :
             mTasks'[j] = IF j < i THEN mTasks[j] ELSE mTasks[j + 1]
    BY RemoveAtProperties, LenProperties DEF TypeOK
  <1> TAKE g \in Fibers \ {mTasks[i].fiber}
  <1>2. ASSUME QueuedCb(g)' PROVE QueuedCb(g)
    <2>1. PICK j \in 1..Len(mTasks') :
            mTasks'[j].kind = "cb" /\ mTasks'[j].fiber = g
      BY <1>2 DEF QueuedCb
    <2>2. CASE j < i
      BY <1>1, <2>1, <2>2 DEF QueuedCb
    <2>3. CASE ~(j < i)
      <3>1. j + 1 \in 1..Len(mTasks) /\ mTasks'[j] = mTasks[j + 1]
        BY <1>1, <2>1, <2>3
      <3> QED
        BY <2>1, <3>1 DEF QueuedCb
    <2> QED
      BY <2>2, <2>3
  <1>3. ASSUME QueuedCb(g) PROVE QueuedCb(g)'
    <2>1. PICK j \in 1..Len(mTasks) :
            mTasks[j].kind = "cb" /\ mTasks[j].fiber = g
      BY <1>3 DEF QueuedCb
    <2>2. CASE j < i
      <3>1. j \in 1..Len(mTasks') /\ mTasks'[j] = mTasks[j]
        BY <1>1, <2>2
      <3> QED
        BY <2>1, <3>1 DEF QueuedCb
    <2>3. CASE j > i
      <3>1. j - 1 \in 1..Len(mTasks') /\ mTasks'[j - 1] = mTasks[j]
        BY <1>1, <2>3
      <3> QED
        BY <2>1, <3>1 DEF QueuedCb
    <2>4. j # i
      BY <2>1
    <2> QED
      BY <1>1, <2>2, <2>3, <2>4
  <1> QED
    BY <1>2, <1>3

-----------------------------------------------------------------------------
(* A step that moves no fiber leaves the abstract variables unchanged.     *)
LEMMA AbstractStutter ==
  ASSUME \A g \in Fibers : FiberStatus(g)' = FiberStatus(g),
         fiberLock' = fiberLock
  PROVE  UNCHANGED Abstract!vars
  BY DEF Abstract!vars

LEMMA AbstractMove ==
  ASSUME NEW f \in Fibers, NEW from, NEW to,
         FiberStatus(f) = from, FiberStatus(f)' = to,
         \A g \in Fibers \ {f} : Untouched(g)
  PROVE  Abstract!Move(f, from, to)
  BY StatusMoves DEF StatusOf, Abstract!Move

-----------------------------------------------------------------------------
(* Every step of the scheduler is a step of TaskPool or a stutter.         *)
LEMMA StepMaps ==
  ASSUME IndInv, IndInv', StatusFacts, StatusFacts', [Next]_vars
  PROVE  [Abstract!Next]_(Abstract!vars)
  <1> USE DEF Goto, queueVars, threadVars, fiberVars, waitVars, epollVars
  <1>0. Workers \subseteq Threads /\ Main \in Threads /\ NoThread \notin Workers
    BY ThreadsAssumption, WorkersAreThreads
  <1>a. /\ pc \in [Threads -> PC] /\ cont \in [Threads -> PC]
        /\ task \in [Threads -> ScheduleTask \cup {NoTask}]
        /\ fiberState \in [Fibers -> {"READY", "RUNNING", "TERM"}]
        /\ fiberLock \in [Fibers -> Workers \cup {NoThread}]
        /\ cbs \in [Threads -> SUBSET Fibers]
    BY DEF IndInv, TypeOK
  <1>b. \A w \in Workers : At(w) \in RunPC => task[w] # NoTask /\ task[w].fiber \in Fibers
    BY TaskOfRunner DEF IndInv
  <1>c. TypeOK /\ Shape /\ Wake /\ OneRunner
    BY DEF IndInv
  <1>d. Wake'
    BY DEF IndInv
  <1>e. \A f \in Fibers : Queued(f) => ~Held(f) /\ ~Expired(f) /\ f \notin timers /\ f \notin events
    BY <1>c DEF Wake, OnePlace
  <1>1. ASSUME Stop
        PROVE  [Abstract!Next]_(Abstract!vars)
    <2>1. \A g \in Fibers, l \in {"run", "cb"} :
            WorkerAt(g, l)' <=> WorkerAt(g, l)
      BY <1>1, <1>0, <1>a DEF Stop, WorkerAt, At
    <2>2. \A g \in Fibers : Untouched(g)
      BY <1>1, <2>1 DEF Stop, Untouched, Terminal, Expired, QueuedCb
    <2> QED
      BY <1>1, <2>2, StatusSame, AbstractStutter DEF Stop
  <1>2. ASSUME StopTickle
        PROVE  [Abstract!Next]_(Abstract!vars)
    <2>1. \A g \in Fibers, l \in {"run", "cb"} :
            WorkerAt(g, l)' <=> WorkerAt(g, l)
      BY <1>2, <1>0, <1>a DEF StopTickle, WorkerAt, At
    <2>2. \A g \in Fibers : Untouched(g)
      BY <1>2, <2>1 DEF StopTickle, Untouched, Terminal, Expired, QueuedCb
    <2> QED
      BY <1>2, <2>2, StatusSame, AbstractStutter DEF StopTickle
  <1>3. ASSUME StopRun
        PROVE  [Abstract!Next]_(Abstract!vars)
    <2>1. \A g \in Fibers, l \in {"run", "cb"} :
            WorkerAt(g, l)' <=> WorkerAt(g, l)
      BY <1>3, <1>0, <1>a DEF StopRun, WorkerAt, At
    <2>2. \A g \in Fibers : Untouched(g)
      BY <1>3, <2>1 DEF StopRun, Untouched, Terminal, Expired, QueuedCb
    <2> QED
      BY <1>3, <2>2, StatusSame, AbstractStutter DEF StopRun
  <1>4. ASSUME Join
        PROVE  [Abstract!Next]_(Abstract!vars)
    <2>1. \A g \in Fibers, l \in {"run", "cb"} :
            WorkerAt(g, l)' <=> WorkerAt(g, l)
      BY <1>4, <1>0, <1>a DEF Join, WorkerAt, At
    <2>2. \A g \in Fibers : Untouched(g)
      BY <1>4, <2>1 DEF Join, Untouched, Terminal, Expired, QueuedCb
    <2> QED
      BY <1>4, <2>2, StatusSame, AbstractStutter DEF Join
  <1>5. ASSUME NEW f \in Fibers, MainSchedule(f)
        PROVE  [Abstract!Next]_(Abstract!vars)
    <2> DEFINE e == FiberTask(f, Pin[f])
    <2>1. /\ e \in ScheduleTask /\ e.fiber = f /\ e.kind = "fiber"
          /\ mTasks' = Append(mTasks, e)
      BY <1>5, EntriesAreTasks, FibersAssumption
         DEF MainSchedule, scheduleLock, FiberTask
    <2> HIDE DEF e
    <2>2. f \notin spawned /\ ~Queued(f)
      BY <1>5, <1>c DEF MainSchedule, Wake, OnePlace, Live
    <2>q. \A g \in Fibers \ {f} : QueuedCb(g)' <=> QueuedCb(g)
      BY <1>c, <2>1, QueuedCbAppended
    <2>w. \A g \in Fibers \ {f}, l \in {"run", "cb"} :
            WorkerAt(g, l)' <=> WorkerAt(g, l)
      BY <1>5, <1>0, <1>a DEF MainSchedule, scheduleLock, WorkerAt, At
    <2>u. \A g \in Fibers \ {f} : Untouched(g)
      BY <1>5, <1>0, <1>a, <2>q, <2>w DEF MainSchedule, Untouched, Terminal, Expired
    <2>3. Queued(f)' /\ ~QueuedCb(f)'
      BY <1>c, <2>1, <2>2, QueueAppended, QueuedCbAppended, QueuedCbIsQueued DEF Wake
    <2>4. FiberStatus(f) = "new" /\ FiberStatus(f)' = "ready"
      BY <2>2, <2>3 DEF StatusFacts
    <2>5. Abstract!Submit(f)
      BY <1>5, <2>4, <2>u, AbstractMove DEF MainSchedule, Abstract!Submit
    <2> QED
      BY <2>5 DEF Abstract!Next
  <1>6. ASSUME NEW w \in Workers, Fetch(w)
        PROVE  [Abstract!Next]_(Abstract!vars)
    <2>1. CASE \E i \in 1..Len(mTasks) : IsFirstFor(w, i)
      <3>1. PICK i \in 1..Len(mTasks) :
              /\ task' = [task EXCEPT ![w] = mTasks[i]]
              /\ mTasks' = RemoveAt(mTasks, i)
              /\ cont' = [cont EXCEPT ![w] = Dispatch(mTasks[i])]
              /\ \/ pc' = [pc EXCEPT ![w] = "tickle"]
                 \/ pc' = [pc EXCEPT ![w] = Dispatch(mTasks[i])]
        BY <1>6, <2>1 DEF Fetch
      <3>0. PICK f \in Fibers : f = mTasks[i].fiber
        BY <1>c, EntryOfQueue
      <3>2. /\ mTasks[i] # NoTask
            /\ Dispatch(mTasks[i]) =
                 IF mTasks[i].kind = "fiber" THEN "lock" ELSE "cb"
            /\ mTasks[i].kind \in {"fiber", "cb"}
        BY <1>c, EntryOfQueue DEF Dispatch
      <3>3. /\ At(w)' = Dispatch(mTasks[i]) /\ task'[w] = mTasks[i]
            /\ At(w) = "fetch"
        BY <1>6, <1>0, <1>a, <3>1, <3>2 DEF At, Fetch
      <3>4. \A v \in Workers \ {w} : At(v)' = At(v) /\ task'[v] = task[v]
        BY <1>0, <1>a, <3>1 DEF At
      <3>5. Queued(f) /\ (QueuedCb(f) <=> mTasks[i].kind = "cb")
        BY <1>c, <3>0 DEF Queued, QueuedCb, Wake, UniqueEntry
      <3>6. Holds(w, f)'
        BY <3>0, <3>2, <3>3 DEF Holds
      <3>7. FiberStatus(f)' = FiberStatus(f)
        BY <3>2, <3>3, <3>5, <3>6 DEF StatusFacts
      <3>8. \A g \in Fibers \ {f} : QueuedCb(g)' <=> QueuedCb(g)
        BY <1>c, <3>0, <3>1, QueuedCbRemoved
      <3>9. \A g \in Fibers \ {f}, l \in {"run", "cb"} :
              WorkerAt(g, l)' <=> WorkerAt(g, l)
        BY <3>0, <3>3, <3>4 DEF WorkerAt
      <3>10. \A g \in Fibers \ {f} : Untouched(g)
        BY <1>6, <3>8, <3>9 DEF Fetch, Untouched, Terminal, Expired
      <3> QED
        BY <1>6, <3>7, <3>10, StatusSame, AbstractStutter DEF Fetch
    <2>2. CASE \A i \in 1..Len(mTasks) : ~IsFirstFor(w, i)
      <3>1. \A g \in Fibers, l \in {"run", "cb"} :
              WorkerAt(g, l)' <=> WorkerAt(g, l)
        BY <1>6, <1>0, <1>a, <2>2 DEF Fetch, WorkerAt, At
      <3>2. \A g \in Fibers : Untouched(g)
        BY <1>6, <2>2, <3>1 DEF Fetch, Untouched, Terminal, Expired, QueuedCb
      <3> QED
        BY <1>6, <3>2, StatusSame, AbstractStutter DEF Fetch
    <2> QED
      BY <2>1, <2>2
  <1>7. ASSUME NEW w \in Workers, LockFiber(w)
        PROVE  [Abstract!Next]_(Abstract!vars)
    <2>0. PICK f \in Fibers : f = task[w].fiber
      BY <1>7, <1>b DEF LockFiber, At, RunPC
    <2>h. Holds(w, f) /\ Holds(w, f) = Holds(w, task[w].fiber)
      BY <1>7, <1>b, <2>0 DEF LockFiber, At, RunPC, Holds
    <2>1. fiberState[f] # "TERM"
      BY <1>c, <2>h DEF Wake, OnePlace, Held, Live
    <2>2. /\ fiberLock[f] = NoThread
          /\ fiberLock' = [fiberLock EXCEPT ![f] = w]
          /\ fiberState' = [fiberState EXCEPT ![f] = "RUNNING"]
          /\ At(w) = "lock" /\ At(w)' = "run" /\ task' = task
      BY <1>7, <1>0, <1>a, <2>0, <2>1 DEF LockFiber, At
    <2>3. Holds(w, f)'
      BY <2>2, <2>h DEF Holds
    <2>4. FiberStatus(f) = "ready" /\ FiberStatus(f)' = "running"
      BY <2>2, <2>3, <2>h DEF StatusFacts
    <2>q. \A g \in Fibers \ {f} : QueuedCb(g)' <=> QueuedCb(g)
      BY <1>7 DEF LockFiber, QueuedCb
    <2>w. \A g \in Fibers \ {f}, l \in {"run", "cb"} :
            WorkerAt(g, l)' <=> WorkerAt(g, l)
      BY <1>7, <1>0, <1>a, <2>0, <2>2 DEF LockFiber, WorkerAt, At
    <2>u. \A g \in Fibers \ {f} : Untouched(g)
      BY <1>7, <1>0, <1>a, <2>q, <2>w, <2>0, <2>2 DEF LockFiber, Untouched, Terminal, Expired
    <2>5. ~Abstract!Busy(w)
      BY <1>c, <2>2 DEF Abstract!Busy, OneRunner
    <2>6. Abstract!Resume(w, f)
      BY <2>2, <2>4, <2>5, <2>u, AbstractMove DEF Abstract!Resume
    <2> QED
      BY <2>6 DEF Abstract!Next
  <1>8. ASSUME NEW w \in Workers, RunCb(w)
        PROVE  [Abstract!Next]_(Abstract!vars)
    <2>0. PICK f \in Fibers : f = task[w].fiber
      BY <1>8, <1>b DEF RunCb, At, RunPC
    <2>h. Holds(w, f) /\ Holds(w, f) = Holds(w, task[w].fiber)
      BY <1>8, <1>b, <2>0 DEF RunCb, At, RunPC, Holds
    <2> DEFINE e == FiberTask(f, AnyThread)
    <2>1. /\ e \in ScheduleTask /\ e.fiber = f /\ e.kind = "fiber"
          /\ mTasks' = Append(mTasks, e)
      BY <1>8, <2>0, EntriesAreTasks DEF RunCb, scheduleLock, FiberTask
    <2> HIDE DEF e
    <2>2. ~Queued(f)
      BY <1>e, <2>h DEF Held
    <2>q. \A g \in Fibers \ {f} : QueuedCb(g)' <=> QueuedCb(g)
      BY <1>c, <2>1, QueuedCbAppended
    <2>w. \A g \in Fibers \ {f}, l \in {"run", "cb"} :
            WorkerAt(g, l)' <=> WorkerAt(g, l)
      BY <1>8, <1>0, <1>a, <2>0 DEF RunCb, scheduleLock, WorkerAt, At
    <2>u. \A g \in Fibers \ {f} : Untouched(g)
      BY <1>8, <1>0, <1>a, <2>q, <2>w, <2>0 DEF RunCb, Untouched, Terminal, Expired
    <2>3. Queued(f)' /\ ~QueuedCb(f)'
      BY <1>c, <2>1, <2>2, QueueAppended, QueuedCbAppended, QueuedCbIsQueued DEF Wake
    <2>4. FiberStatus(f) = "waiting" /\ FiberStatus(f)' = "ready"
      BY <1>8, <2>3, <2>h DEF StatusFacts, RunCb, At
    <2>5. Abstract!Wake(f)
      BY <1>8, <2>4, <2>u, AbstractMove DEF RunCb, Abstract!Wake
    <2> QED
      BY <2>5 DEF Abstract!Next
  <1>9. ASSUME NEW w \in Workers, Dec(w)
        PROVE  [Abstract!Next]_(Abstract!vars)
    <2>1. \A g \in Fibers, l \in {"run", "cb"} :
            WorkerAt(g, l)' <=> WorkerAt(g, l)
      BY <1>9, <1>0, <1>a DEF Dec, WorkerAt, At
    <2>2. \A g \in Fibers : Untouched(g)
      BY <1>9, <2>1 DEF Dec, Untouched, Terminal, Expired, QueuedCb
    <2> QED
      BY <1>9, <2>2, StatusSame, AbstractStutter DEF Dec
  <1>10. ASSUME NEW w \in Workers, GoIdle(w)
        PROVE  [Abstract!Next]_(Abstract!vars)
    <2>1. \A g \in Fibers, l \in {"run", "cb"} :
            WorkerAt(g, l)' <=> WorkerAt(g, l)
      BY <1>10, <1>0, <1>a DEF GoIdle, WorkerAt, At
    <2>2. \A g \in Fibers : Untouched(g)
      BY <1>10, <2>1 DEF GoIdle, Untouched, Terminal, Expired, QueuedCb
    <2> QED
      BY <1>10, <2>2, StatusSame, AbstractStutter DEF GoIdle
  <1>11. ASSUME NEW w \in Workers, Yield(w)
        PROVE  [Abstract!Next]_(Abstract!vars)
    <2>0. PICK f \in Fibers : f = task[w].fiber
      BY <1>11, <1>b DEF Yield, At, RunPC
    <2>1. /\ fiberLock[f] = w /\ fiberState[f] = "RUNNING" /\ At(w) = "armed"
          /\ fiberLock' = [fiberLock EXCEPT ![f] = NoThread]
          /\ fiberState' = [fiberState EXCEPT ![f] = "READY"]
      BY <1>11, <1>0, <1>b, <1>c, <2>0 DEF Yield, At, RunPC, OneRunner
    <2>2. ~WorkerAt(f, "run") /\ f \in spawned
      <3>1. ASSUME NEW v \in Workers, At(v) = "run", task[v].fiber = f
            PROVE  FALSE
        BY <1>b, <1>c, <2>1, <3>1 DEF OneRunner, RunPC
      <3>2. f \in spawned
        BY <1>c, <2>1 DEF Wake, OnePlace
      <3> QED
        BY <3>1, <3>2 DEF WorkerAt
    <2>3. FiberStatus(f) \in {"waiting", "ready"}
      BY <2>1, <2>2 DEF FiberStatus
    <2>4. \A g \in Fibers, l \in {"run", "cb"} :
            WorkerAt(g, l)' <=> WorkerAt(g, l)
      BY <1>11, <1>0, <1>a DEF Yield, WorkerAt, At
    <2>5. \A g \in Fibers : Untouched(g)
      BY <1>11, <1>a, <2>1, <2>4
         DEF Yield, Untouched, Terminal, Expired, QueuedCb
    <2>6. StatusOf' = StatusOf
      BY <2>5, StatusSame DEF StatusOf
    <2>7. Abstract!Leave(f)
      BY <1>0, <2>1, <2>3, <2>6 DEF Abstract!Leave, StatusOf
    <2> QED
      BY <2>7 DEF Abstract!Next
  <1>12. ASSUME NEW w \in Workers, Finish(w)
        PROVE  [Abstract!Next]_(Abstract!vars)
    <2>0. PICK f \in Fibers : f = task[w].fiber
      BY <1>12, <1>b DEF Finish, At, RunPC
    <2>h. Holds(w, f) /\ Holds(w, f) = Holds(w, task[w].fiber)
      BY <1>12, <1>b, <2>0 DEF Finish, At, RunPC, Holds
    <2>1. /\ fiberLock' = [fiberLock EXCEPT ![f] = NoThread]
          /\ fiberState' = [fiberState EXCEPT ![f] = "TERM"]
          /\ At(w) = "run" /\ f \in spawned /\ spawned' = spawned
      BY <1>12, <1>c, <2>0, <2>h DEF Finish, At, Wake, OnePlace, Held, Live
    <2>2. FiberStatus(f) = "running" /\ FiberStatus(f)' = "done"
      BY <1>a, <2>1, <2>h DEF StatusFacts, Terminal
    <2>q. \A g \in Fibers \ {f} : QueuedCb(g)' <=> QueuedCb(g)
      BY <1>12 DEF Finish, QueuedCb
    <2>w. \A g \in Fibers \ {f}, l \in {"run", "cb"} :
            WorkerAt(g, l)' <=> WorkerAt(g, l)
      BY <1>12, <1>0, <1>a, <2>0, <2>1 DEF Finish, WorkerAt, At
    <2>u. \A g \in Fibers \ {f} : Untouched(g)
      BY <1>12, <1>0, <1>a, <2>q, <2>w, <2>0, <2>1 DEF Finish, Untouched, Terminal, Expired
    <2>3. Abstract!Complete(f)
      BY <2>1, <2>2, <2>u, AbstractMove DEF Abstract!Complete
    <2> QED
      BY <2>3 DEF Abstract!Next
  <1>13. ASSUME NEW w \in Workers, Sleep(w)
        PROVE  [Abstract!Next]_(Abstract!vars)
    <2>0. PICK f \in Fibers : f = task[w].fiber
      BY <1>13, <1>b DEF Sleep, At, RunPC
    <2>h. Holds(w, f) /\ Holds(w, f) = Holds(w, task[w].fiber)
      BY <1>13, <1>b, <2>0 DEF Sleep, At, RunPC, Holds
    <2>1. timers' = timers \cup {f} /\ At(w) = "run" /\ fiberLock' = fiberLock
      BY <1>13, <2>0 DEF Sleep, At
    <2>2. FiberStatus(f) = "running" /\ FiberStatus(f)' = "waiting"
      BY <2>1, <2>h DEF StatusFacts
    <2>q. \A g \in Fibers \ {f} : QueuedCb(g)' <=> QueuedCb(g)
      BY <1>13 DEF Sleep, QueuedCb
    <2>w. \A g \in Fibers \ {f}, l \in {"run", "cb"} :
            WorkerAt(g, l)' <=> WorkerAt(g, l)
      BY <1>13, <1>0, <1>a, <2>0, <2>1 DEF Sleep, WorkerAt, At
    <2>u. \A g \in Fibers \ {f} : Untouched(g)
      BY <1>13, <1>0, <1>a, <2>q, <2>w, <2>0, <2>1 DEF Sleep, Untouched, Terminal, Expired
    <2>3. Abstract!Block(f)
      BY <2>1, <2>2, <2>u, AbstractMove DEF Abstract!Block
    <2> QED
      BY <2>3 DEF Abstract!Next
  <1>14. ASSUME NEW w \in Workers, WaitEvent(w)
        PROVE  [Abstract!Next]_(Abstract!vars)
    <2>0. PICK f \in Fibers : f = task[w].fiber
      BY <1>14, <1>b DEF WaitEvent, At, RunPC
    <2>h. Holds(w, f) /\ Holds(w, f) = Holds(w, task[w].fiber)
      BY <1>14, <1>b, <2>0 DEF WaitEvent, At, RunPC, Holds
    <2>1. events' = events \cup {f} /\ At(w) = "run" /\ fiberLock' = fiberLock
      BY <1>14, <2>0 DEF WaitEvent, At
    <2>2. FiberStatus(f) = "running" /\ FiberStatus(f)' = "waiting"
      BY <2>1, <2>h DEF StatusFacts
    <2>q. \A g \in Fibers \ {f} : QueuedCb(g)' <=> QueuedCb(g)
      BY <1>14 DEF WaitEvent, QueuedCb
    <2>w. \A g \in Fibers \ {f}, l \in {"run", "cb"} :
            WorkerAt(g, l)' <=> WorkerAt(g, l)
      BY <1>14, <1>0, <1>a, <2>0, <2>1 DEF WaitEvent, WorkerAt, At
    <2>u. \A g \in Fibers \ {f} : Untouched(g)
      BY <1>14, <1>0, <1>a, <2>q, <2>w, <2>0, <2>1 DEF WaitEvent, Untouched, Terminal, Expired
    <2>3. Abstract!Block(f)
      BY <2>1, <2>2, <2>u, AbstractMove DEF Abstract!Block
    <2> QED
      BY <2>3 DEF Abstract!Next
  <1>15. ASSUME NEW w \in Workers, NEW f \in Fibers, Spawn(w, f)
        PROVE  [Abstract!Next]_(Abstract!vars)
    <2> DEFINE e == FiberTask(f, Pin[f])
    <2>1. /\ e \in ScheduleTask /\ e.fiber = f /\ e.kind = "fiber"
          /\ mTasks' = Append(mTasks, e)
      BY <1>15, EntriesAreTasks, FibersAssumption
         DEF Spawn, scheduleLock, FiberTask
    <2> HIDE DEF e
    <2>2. f \notin spawned /\ ~Queued(f)
      BY <1>15, <1>c DEF Spawn, Wake, OnePlace, Live
    <2>q. \A g \in Fibers \ {f} : QueuedCb(g)' <=> QueuedCb(g)
      BY <1>c, <2>1, QueuedCbAppended
    <2>w. \A g \in Fibers \ {f}, l \in {"run", "cb"} :
            WorkerAt(g, l)' <=> WorkerAt(g, l)
      BY <1>15, <1>0, <1>a DEF Spawn, scheduleLock, WorkerAt, At
    <2>u. \A g \in Fibers \ {f} : Untouched(g)
      BY <1>15, <1>0, <1>a, <2>q, <2>w DEF Spawn, Untouched, Terminal, Expired
    <2>3. Queued(f)' /\ ~QueuedCb(f)'
      BY <1>c, <2>1, <2>2, QueueAppended, QueuedCbAppended, QueuedCbIsQueued DEF Wake
    <2>4. FiberStatus(f) = "new" /\ FiberStatus(f)' = "ready"
      BY <2>2, <2>3 DEF StatusFacts
    <2>5. Abstract!Submit(f)
      BY <1>15, <2>4, <2>u, AbstractMove DEF Spawn, Abstract!Submit
    <2> QED
      BY <2>5 DEF Abstract!Next
  <1>16. ASSUME NEW w \in Workers, CheckTimers(w)
        PROVE  [Abstract!Next]_(Abstract!vars)
    <2>1. \A g \in Fibers, l \in {"run", "cb"} :
            WorkerAt(g, l)' <=> WorkerAt(g, l)
      BY <1>16, <1>0, <1>a DEF CheckTimers, WorkerAt, At
    <2>2. \A g \in Fibers : Untouched(g)
      BY <1>16, <2>1 DEF CheckTimers, Untouched, Terminal, Expired, QueuedCb
    <2> QED
      BY <1>16, <2>2, StatusSame, AbstractStutter DEF CheckTimers
  <1>17. ASSUME NEW w \in Workers, CheckPending(w)
        PROVE  [Abstract!Next]_(Abstract!vars)
    <2>1. \A g \in Fibers, l \in {"run", "cb"} :
            WorkerAt(g, l)' <=> WorkerAt(g, l)
      BY <1>17, <1>0, <1>a DEF CheckPending, WorkerAt, At
    <2>2. \A g \in Fibers : Untouched(g)
      BY <1>17, <2>1 DEF CheckPending, Untouched, Terminal, Expired, QueuedCb
    <2> QED
      BY <1>17, <2>2, StatusSame, AbstractStutter DEF CheckPending
  <1>18. ASSUME NEW w \in Workers, CheckDrained(w)
        PROVE  [Abstract!Next]_(Abstract!vars)
    <2>1. \A g \in Fibers, l \in {"run", "cb"} :
            WorkerAt(g, l)' <=> WorkerAt(g, l)
      BY <1>18, <1>0, <1>a DEF CheckDrained, WorkerAt, At
    <2>2. \A g \in Fibers : Untouched(g)
      BY <1>18, <2>1 DEF CheckDrained, Untouched, Terminal, Expired, QueuedCb
    <2> QED
      BY <1>18, <2>2, StatusSame, AbstractStutter DEF CheckDrained
  <1>19. ASSUME NEW w \in Workers, EpollReturn(w)
        PROVE  [Abstract!Next]_(Abstract!vars)
    <2>1. \A g \in Fibers, l \in {"run", "cb"} :
            WorkerAt(g, l)' <=> WorkerAt(g, l)
      BY <1>19, <1>0, <1>a DEF EpollReturn, WorkerAt, At
    <2>2. \A g \in Fibers : Untouched(g)
      BY <1>19, <2>1 DEF EpollReturn, Untouched, Terminal, Expired, QueuedCb
    <2> QED
      BY <1>19, <2>2, StatusSame, AbstractStutter DEF EpollReturn
  <1>20. ASSUME NEW w \in Workers, EpollTimeout(w)
        PROVE  [Abstract!Next]_(Abstract!vars)
    <2>1. \A g \in Fibers, l \in {"run", "cb"} :
            WorkerAt(g, l)' <=> WorkerAt(g, l)
      BY <1>20, <1>0, <1>a DEF EpollTimeout, WorkerAt, At
    <2>2. \A g \in Fibers : Untouched(g)
      BY <1>20, <2>1 DEF EpollTimeout, Untouched, Terminal, Expired, QueuedCb
    <2> QED
      BY <1>20, <2>2, StatusSame, AbstractStutter DEF EpollTimeout
  <1>21. ASSUME NEW w \in Workers, ListExpiredCb(w)
        PROVE  [Abstract!Next]_(Abstract!vars)
    <2>1. /\ cbs[w] = {} /\ due \subseteq timers /\ timers \subseteq Fibers
          /\ cbs' = [cbs EXCEPT ![w] = due] /\ timers' = timers \ due
      BY <1>21, <1>c DEF ListExpiredCb, Shape, At, TypeOK
    <2>2. \A g \in due : FiberStatus(g) = "waiting" /\ FiberStatus(g)' = "waiting"
      <3>1. \A g \in due : g \in Fibers /\ g \in timers /\ Expired(g)'
        BY <1>0, <1>a, <2>1 DEF Expired
      <3> QED
        BY <3>1 DEF StatusFacts
    <2>3. \A v \in Workers, g \in Fibers \ due : g \in cbs'[v] <=> g \in cbs[v]
      BY <1>0, <1>a, <2>1
    <2>e. \A g \in Fibers \ due : Expired(g)' <=> Expired(g)
      BY <2>3 DEF Expired
    <2>q. \A g \in Fibers : QueuedCb(g)' <=> QueuedCb(g)
      BY <1>21 DEF ListExpiredCb, QueuedCb
    <2>w. \A g \in Fibers, l \in {"run", "cb"} :
            WorkerAt(g, l)' <=> WorkerAt(g, l)
      BY <1>21, <1>0, <1>a DEF ListExpiredCb, WorkerAt, At
    <2>u. \A g \in Fibers \ due : Untouched(g)
      BY <1>21, <2>1, <2>e, <2>q, <2>w DEF ListExpiredCb, Untouched, Terminal
    <2> QED
      BY <1>21, <2>2, <2>u, StatusSame, AbstractStutter DEF ListExpiredCb
  <1>22. ASSUME NEW w \in Workers, NEW f \in Fibers, ScheduleCb(w, f)
        PROVE  [Abstract!Next]_(Abstract!vars)
    <2> DEFINE e == CbTask(f)
    <2>1. /\ e \in ScheduleTask /\ e.fiber = f /\ e.kind = "cb"
          /\ mTasks' = Append(mTasks, e)
      BY <1>22, EntriesAreTasks DEF ScheduleCb, scheduleLock, CbTask
    <2> HIDE DEF e
    <2>2. Expired(f) /\ ~Queued(f)
      BY <1>22, <1>e DEF ScheduleCb, Expired
    <2>q. \A g \in Fibers \ {f} : QueuedCb(g)' <=> QueuedCb(g)
      BY <1>c, <2>1, QueuedCbAppended
    <2>w. \A g \in Fibers \ {f}, l \in {"run", "cb"} :
            WorkerAt(g, l)' <=> WorkerAt(g, l)
      BY <1>22, <1>0, <1>a DEF ScheduleCb, scheduleLock, WorkerAt, At
    <2>u. \A g \in Fibers \ {f} : Untouched(g)
      BY <1>22, <1>0, <1>a, <2>q, <2>w DEF ScheduleCb, Untouched, Terminal, Expired
    <2>3. Queued(f)' /\ QueuedCb(f)'
      BY <1>c, <2>1, <2>2, QueueAppended, QueuedCbAppended DEF Wake
    <2>4. FiberStatus(f) = "waiting" /\ FiberStatus(f)' = "waiting"
      BY <2>2, <2>3 DEF StatusFacts
    <2> QED
      BY <1>22, <2>4, <2>u, StatusSame, AbstractStutter DEF ScheduleCb
  <1>23. ASSUME NEW w \in Workers, NEW f \in Fibers, Trigger(w, f)
        PROVE  [Abstract!Next]_(Abstract!vars)
    <2> DEFINE e == FiberTask(f, AnyThread)
    <2>1. /\ e \in ScheduleTask /\ e.fiber = f /\ e.kind = "fiber"
          /\ mTasks' = Append(mTasks, e)
      BY <1>23, EntriesAreTasks DEF Trigger, scheduleLock, FiberTask
    <2> HIDE DEF e
    <2>2. f \in events /\ ~Queued(f)
      BY <1>23, <1>c, <1>e DEF Trigger, Shape
    <2>q. \A g \in Fibers \ {f} : QueuedCb(g)' <=> QueuedCb(g)
      BY <1>c, <2>1, QueuedCbAppended
    <2>w. \A g \in Fibers \ {f}, l \in {"run", "cb"} :
            WorkerAt(g, l)' <=> WorkerAt(g, l)
      BY <1>23, <1>0, <1>a DEF Trigger, scheduleLock, WorkerAt, At
    <2>u. \A g \in Fibers \ {f} : Untouched(g)
      BY <1>23, <1>0, <1>a, <2>q, <2>w DEF Trigger, Untouched, Terminal, Expired
    <2>3. Queued(f)' /\ ~QueuedCb(f)'
      BY <1>c, <2>1, <2>2, QueueAppended, QueuedCbAppended, QueuedCbIsQueued DEF Wake
    <2>4. FiberStatus(f) = "waiting" /\ FiberStatus(f)' = "ready"
      BY <2>2, <2>3 DEF StatusFacts
    <2>5. Abstract!Wake(f)
      BY <1>23, <2>4, <2>u, AbstractMove DEF Trigger, Abstract!Wake
    <2> QED
      BY <2>5 DEF Abstract!Next
  <1>24. ASSUME NEW w \in Workers, Drain(w)
        PROVE  [Abstract!Next]_(Abstract!vars)
    <2>1. \A g \in Fibers, l \in {"run", "cb"} :
            WorkerAt(g, l)' <=> WorkerAt(g, l)
      BY <1>24, <1>0, <1>a DEF Drain, WorkerAt, At
    <2>2. \A g \in Fibers : Untouched(g)
      BY <1>24, <2>1 DEF Drain, Untouched, Terminal, Expired, QueuedCb
    <2> QED
      BY <1>24, <2>2, StatusSame, AbstractStutter DEF Drain
  <1>25. ASSUME NEW w \in Workers, Settle(w)
        PROVE  [Abstract!Next]_(Abstract!vars)
    <2>1. \A g \in Fibers, l \in {"run", "cb"} :
            WorkerAt(g, l)' <=> WorkerAt(g, l)
      BY <1>25, <1>0, <1>a DEF Settle, WorkerAt, At
    <2>2. \A g \in Fibers : Untouched(g)
      BY <1>25, <2>1 DEF Settle, Untouched, Terminal, Expired, QueuedCb
    <2> QED
      BY <1>25, <2>2, StatusSame, AbstractStutter DEF Settle
  <1>26. ASSUME NEW w \in Workers, IdleYield(w)
        PROVE  [Abstract!Next]_(Abstract!vars)
    <2>1. \A g \in Fibers, l \in {"run", "cb"} :
            WorkerAt(g, l)' <=> WorkerAt(g, l)
      BY <1>26, <1>0, <1>a DEF IdleYield, WorkerAt, At
    <2>2. \A g \in Fibers : Untouched(g)
      BY <1>26, <2>1 DEF IdleYield, Untouched, Terminal, Expired, QueuedCb
    <2> QED
      BY <1>26, <2>2, StatusSame, AbstractStutter DEF IdleYield
  <1>27. ASSUME NEW w \in Workers, Unidle(w)
        PROVE  [Abstract!Next]_(Abstract!vars)
    <2>1. \A g \in Fibers, l \in {"run", "cb"} :
            WorkerAt(g, l)' <=> WorkerAt(g, l)
      BY <1>27, <1>0, <1>a DEF Unidle, WorkerAt, At
    <2>2. \A g \in Fibers : Untouched(g)
      BY <1>27, <2>1 DEF Unidle, Untouched, Terminal, Expired, QueuedCb
    <2> QED
      BY <1>27, <2>2, StatusSame, AbstractStutter DEF Unidle
  <1>28. ASSUME NEW t \in Threads, TickleCheck(t)
        PROVE  [Abstract!Next]_(Abstract!vars)
    <2>1. \A g \in Fibers, l \in {"run", "cb"} :
            WorkerAt(g, l)' <=> WorkerAt(g, l)
      BY <1>28, <1>0, <1>a, <1>c DEF TickleCheck, WorkerAt, At, Shape, TicklePC
    <2>2. \A g \in Fibers : Untouched(g)
      BY <1>28, <2>1 DEF TickleCheck, Untouched, Terminal, Expired, QueuedCb
    <2> QED
      BY <1>28, <2>2, StatusSame, AbstractStutter DEF TickleCheck
  <1>29. ASSUME NEW t \in Threads, TickleWrite(t)
        PROVE  [Abstract!Next]_(Abstract!vars)
    <2>1. \A g \in Fibers, l \in {"run", "cb"} :
            WorkerAt(g, l)' <=> WorkerAt(g, l)
      BY <1>29, <1>0, <1>a, <1>c DEF TickleWrite, WorkerAt, At, Shape, TicklePC
    <2>2. \A g \in Fibers : Untouched(g)
      BY <1>29, <2>1 DEF TickleWrite, Untouched, Terminal, Expired, QueuedCb
    <2> QED
      BY <1>29, <2>2, StatusSame, AbstractStutter DEF TickleWrite
  <1>30. ASSUME NEW f \in Fibers, TimerDue(f)
        PROVE  [Abstract!Next]_(Abstract!vars)
    <2>1. \A g \in Fibers, l \in {"run", "cb"} :
            WorkerAt(g, l)' <=> WorkerAt(g, l)
      BY <1>30, <1>0, <1>a DEF TimerDue, WorkerAt, At
    <2>2. \A g \in Fibers : Untouched(g)
      BY <1>30, <2>1 DEF TimerDue, Untouched, Terminal, Expired, QueuedCb
    <2> QED
      BY <1>30, <2>2, StatusSame, AbstractStutter DEF TimerDue
  <1>31. ASSUME NEW f \in Fibers, EventReady(f)
        PROVE  [Abstract!Next]_(Abstract!vars)
    <2>1. \A g \in Fibers, l \in {"run", "cb"} :
            WorkerAt(g, l)' <=> WorkerAt(g, l)
      BY <1>31, <1>0, <1>a DEF EventReady, WorkerAt, At
    <2>2. \A g \in Fibers : Untouched(g)
      BY <1>31, <2>1 DEF EventReady, Untouched, Terminal, Expired, QueuedCb
    <2> QED
      BY <1>31, <2>2, StatusSame, AbstractStutter DEF EventReady
  <1>32. ASSUME UNCHANGED vars PROVE [Abstract!Next]_(Abstract!vars)
    <2>1. \A g \in Fibers : Untouched(g)
      BY <1>32 DEF vars, Untouched, Terminal, Expired, QueuedCb, WorkerAt, At
    <2> QED
      BY <1>32, <2>1, StatusSame, AbstractStutter DEF vars
  <1> QED
    BY <1>1, <1>2, <1>3, <1>4, <1>5, <1>6, <1>7, <1>8, <1>9, <1>10, <1>11,
       <1>12, <1>13, <1>14, <1>15, <1>16, <1>17, <1>18, <1>19, <1>20, <1>21,
       <1>22, <1>23, <1>24, <1>25, <1>26, <1>27, <1>28, <1>29, <1>30, <1>31,
       <1>32
       DEF Next, MainStep, RunStep, BlockStep, IdleStep, TickleStep, EnvStep,
           Terminated

LEMMA InitMaps == Init => Abstract!Init
  <1> SUFFICES ASSUME Init PROVE Abstract!Init
    OBVIOUS
  <1>1. spawned = {} /\ fiberLock = [f \in Fibers |-> NoThread]
    BY DEF Init
  <1>2. \A f \in Fibers : FiberStatus(f) = "new"
    BY <1>1, StatusOfNew
  <1> QED
    BY <1>1, <1>2 DEF Abstract!Init

(* The scheduler is a task pool: whatever its threads interleave, a fiber  *)
(* is submitted once, resumed only when it is ready, by one worker that    *)
(* executes nothing else, woken once for each wait and never resumed after *)
(* its function has returned.                                              *)
THEOREM Refinement == Spec => ImplementsTaskPool
  <1>1. IndInv => StatusFacts
    BY StatusKnown DEF IndInv
  <1>2. IndInv /\ IndInv' /\ [Next]_vars => [Abstract!Next]_(Abstract!vars)
    <2>1. IndInv' => StatusFacts'
      BY <1>1, PTL
    <2> QED
      BY <1>1, <2>1, StepMaps
  <1> QED
    BY <1>2, InitMaps, Invariance, PTL DEF Spec, ImplementsTaskPool, Abstract!Spec
=============================================================================
