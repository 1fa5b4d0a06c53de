--------------------------- MODULE FiberSemaphore ---------------------------
(***************************************************************************)
(* Fibers that share a FiberSemaphore (mutex.h, mutex.cpp) and locks taken *)
(* through the guards of mutex.h, on the threads of FiberSwitch.  The      *)
(* semaphore parks a fiber and keeps its thread running; a lock stops the  *)
(* whole thread.  Task f makes the calls prog[f]; main() makes a few too,  *)
(* before and after stop().                                                *)
(*                                                                         *)
(* A call is "wait", "tryWait", "notify" or "reset" of the semaphore, or   *)
(* concerns a guard of the task: "Lock" constructs a ScopedLockImpl of a   *)
(* Mutex, a Spinlock or a CASLock, "ReadLock" and "WriteLock" those of an  *)
(* RWMutex, "lock" and "unlock" are the last guard's methods and "~Lock"   *)
(* its destructor.                                                         *)
(***************************************************************************)
EXTENDS FiberSwitch

CONSTANTS Scenarios,   \* a set of functions from Tasks to sequences of calls
          MainCalls,   \* a bound on the calls main() makes
          Initial,     \* initial_concurrency
          SizeMax      \* the largest value of m_concurrency, a size_t

ASSUME SizesAssumption == MainCalls \in Nat /\ Initial \in 0..SizeMax /\ SizeMax \in Nat

\* The guards are C++ objects in the scopes of a task: depth[i] of them are
\* alive after i calls, and none when the task returns.
Constructors == {"Lock", "ReadLock", "WriteLock"}
Scoped(p, depth) ==
  /\ depth[0] = 0 /\ depth[Len(p)] = 0
  /\ \A i \in DOMAIN p :
       /\ depth[i] = IF p[i] \in Constructors THEN depth[i - 1] + 1
                     ELSE IF p[i] = "~Lock" THEN depth[i - 1] - 1 ELSE depth[i - 1]
       /\ p[i] \in {"lock", "unlock", "~Lock"} => depth[i - 1] > 0

ASSUME ScenariosAssumption ==
  \A s \in Scenarios, f \in Tasks :
    /\ s[f] \in Seq(Constructors \cup {"lock", "unlock", "~Lock",
                                       "wait", "tryWait", "notify", "reset"})
    /\ \E depth \in [0..Len(s[f]) -> 0..Len(s[f])] : Scoped(s[f], depth)

VARIABLES prog, pc,
          phase,        \* of wait(): "go", "parked" on the list, "away"
          concurrency, waiters,
          spin, seen,   \* the spinlock's holder and the count it has read
          calls,        \* the calls main() has made
          excl, rw,     \* a Mutex, Spinlock or CASLock; an RWMutex
          guards,       \* each task's guards, in order of construction
          given, got, lost,   \* history: units notified, waits returned,
                              \* units that reset() dropped
          raced,        \* history: reset() hit a critical section
          late,         \* history: notify() after stop() had returned
          misused       \* history: a guard was nested or held over a wait

semaVars == <<concurrency, waiters, spin, seen, given, lost, raced>>
lockVars == <<excl, rw, guards, misused>>
vars == <<switchVars, prog, pc, phase, semaVars, calls, got, lockVars, late>>

-----------------------------------------------------------------------------
Op(f) == IF pc[f] <= Len(prog[f]) THEN prog[f][pc[f]] ELSE "return"
Ready(t, f, op) == On(t, f) /\ f \in Tasks /\ phase[f] = "go" /\ Op(f) = op
Next_(f) == pc' = [pc EXCEPT ![f] = @ + 1]
InMain == /\ On(Root, main(Root)) /\ at[main(Root)] \in {"user", "stopped"}
          /\ calls < MainCalls

-----------------------------------------------------------------------------
\* The semaphore.  A critical section is two steps, Acquire which also reads
\* the count and the rest, because reset() writes the count without the lock.

\* m_concurrency is written back: the compiled code uses the value it tested
\* or reads the count again.
Plus(n, d) == (n + d) % (SizeMax + 1)
Store(d) == concurrency' \in {Plus(seen, d), Plus(concurrency, d)}
Unlock == spin' = None /\ seen' = 0 /\ raced' = (raced \/ seen # concurrency)

Acquire(t) ==
  /\ spin = None
  /\ \/ \E f \in Tasks, op \in {"wait", "tryWait", "notify"} : Ready(t, f, op)
     \/ t = Root /\ InMain
  /\ spin' = t /\ seen' = concurrency
  /\ UNCHANGED <<switchVars, prog, pc, phase, concurrency, waiters, given, lost,
                 raced, calls, got, lockVars, late>>

\* Mutant: the count grows although the unit goes to a waiter.
NotifyTwice ==
  /\ Unlock /\ given' = given + 1 /\ Store(1)
  /\ IF waiters # <<>>
       THEN queue' = Append(queue, Head(waiters)) /\ waiters' = Tail(waiters)
       ELSE UNCHANGED <<queue, waiters>>
  /\ UNCHANGED <<cpu, mutex, at, task, active, stopFlag, starters, aborted, lost>>

\* notify()'s critical section
Notify ==
  /\ Unlock /\ given' = given + 1
  /\ IF waiters # <<>>
       THEN /\ queue' = Append(queue, Head(waiters))
            /\ waiters' = Tail(waiters)
            /\ UNCHANGED concurrency
       ELSE Store(1) /\ UNCHANGED <<queue, waiters>>
  /\ UNCHANGED <<cpu, mutex, at, task, active, stopFlag, starters, aborted, lost>>

notify(t, f) ==
  /\ spin = t /\ Ready(t, f, "notify") /\ Unlocked
  /\ Notify /\ Next_(f)
  /\ UNCHANGED <<prog, phase, calls, got, lockVars, late>>

MainNotify ==
  /\ spin = Root /\ InMain /\ Unlocked
  /\ Notify
  /\ calls' = calls + 1
  /\ late' = (late \/ at[main(Root)] = "stopped")
  /\ UNCHANGED <<prog, pc, phase, got, lockVars>>

tryWait(t, f) ==
  /\ spin = t /\ Ready(t, f, "tryWait")
  /\ Unlock
  /\ IF seen > 0 THEN Store(SizeMax) /\ got' = got + 1
                 ELSE UNCHANGED <<concurrency, got>>
  /\ Next_(f)
  /\ UNCHANGED <<switchVars, prog, phase, waiters, given, lost, calls, lockVars, late>>

\* wait() up to the end of its block: it takes a unit or joins the list
wait(t, f) ==
  /\ spin = t /\ Ready(t, f, "wait")
  /\ Unlock
  /\ IF seen > 0
       THEN /\ Store(SizeMax) /\ got' = got + 1 /\ Next_(f)
            /\ UNCHANGED <<waiters, phase>>
       ELSE /\ waiters' = Append(waiters, tFiber[t])
            /\ phase' = [phase EXCEPT ![f] = "parked"]
            /\ UNCHANGED <<concurrency, got, pc>>
  /\ UNCHANGED <<switchVars, prog, given, lost, calls, lockVars, late>>

\* Fiber::yieldToReady()
Park(t, f) ==
  /\ On(t, f) /\ f \in Tasks /\ phase[f] = "parked"
  /\ yieldToReady(t)
  /\ phase' = [phase EXCEPT ![f] = "away"]
  /\ misused' = (misused \/ \E i \in DOMAIN guards[f] : guards[f][i].locked)
  /\ UNCHANGED <<mutex, at, task, pool, starters, aborted, prog, pc, semaVars, calls,
                 got, excl, rw, guards, late>>

\* wait() returns to its caller
Woken(t, f) ==
  /\ On(t, f) /\ f \in Tasks /\ phase[f] = "away"
  /\ phase' = [phase EXCEPT ![f] = "go"]
  /\ got' = got + 1
  /\ Next_(f)
  /\ UNCHANGED <<switchVars, prog, semaVars, calls, lockVars, late>>

Reset == concurrency' = 0 /\ lost' = lost + concurrency
         /\ UNCHANGED <<waiters, spin, seen, given, raced>>

reset(t, f) ==
  /\ Ready(t, f, "reset") /\ Reset /\ Next_(f)
  /\ UNCHANGED <<switchVars, prog, phase, calls, got, lockVars, late>>

-----------------------------------------------------------------------------
\* The locks: excl is a Mutex, a Spinlock or a CASLock, which are alike to the
\* guards, and rw an RWMutex.

LockExclusive == ~excl /\ excl' = TRUE /\ UNCHANGED rw
UnlockExclusive == excl' = FALSE /\ UNCHANGED rw

\* pthread_rwlock_t remembers its writer's thread: a call of that thread
\* returns EDEADLK at once, and the methods of RWMutex ignore it.
NoLock == [writer |-> None, readers |-> 0]

rdlock(t) ==
  /\ \/ rw.writer = t /\ UNCHANGED rw
     \/ rw.writer = None /\ rw' = [rw EXCEPT !.readers = @ + 1]
  /\ UNCHANGED excl

wrlock(t) ==
  /\ \/ rw.writer = t /\ UNCHANGED rw
     \/ rw = NoLock /\ rw' = [rw EXCEPT !.writer = t]
  /\ UNCHANGED excl

\* The thread tells what is unlocked.  Unlocking what nobody holds is undefined.
unlock(t) ==
  /\ IF rw.writer = t THEN rw' = [rw EXCEPT !.writer = None]
     ELSE IF rw.readers > 0 THEN rw' = [rw EXCEPT !.readers = @ - 1]
     ELSE rw' \in {rw, NoLock}
  /\ UNCHANGED excl

DoLock(kind, t) == \/ kind = "Lock" /\ LockExclusive
                   \/ kind = "ReadLock" /\ rdlock(t)
                   \/ kind = "WriteLock" /\ wrlock(t)
DoUnlock(kind, t) == IF kind = "Lock" THEN UnlockExclusive ELSE unlock(t)

\* The guards: constructor, lock(), unlock() and destructor are the same for
\* the three templates.
Guard(f) == Last(guards[f])
Method(t, f, name, kind) == /\ Ready(t, f, name) /\ Guard(f).kind = kind /\ Next_(f)
                            /\ UNCHANGED <<switchVars, prog, phase, semaVars, calls,
                                           got, late, misused>>
SetLocked(f, b) == guards' = [guards EXCEPT ![f][Len(guards[f])].locked = b]

Construct(t, f, kind) ==
  /\ Ready(t, f, kind) /\ Next_(f)
  /\ DoLock(kind, t)
  /\ guards' = [guards EXCEPT ![f] = Append(@, [kind |-> kind, locked |-> TRUE])]
  /\ misused' = (misused \/ guards[f] # <<>>)
  /\ UNCHANGED <<switchVars, prog, phase, semaVars, calls, got, late>>

GuardLock(t, f, kind) ==
  /\ Method(t, f, "lock", kind)
  /\ IF Guard(f).locked THEN UNCHANGED <<excl, rw, guards>>
                        ELSE DoLock(kind, t) /\ SetLocked(f, TRUE)

\* Mutant: m_locked stays true.
UnlockForgets(t, f, kind) ==
  /\ Method(t, f, "unlock", kind) /\ UNCHANGED guards
  /\ IF Guard(f).locked THEN DoUnlock(kind, t) ELSE UNCHANGED <<excl, rw>>

GuardUnlock(t, f, kind) ==
  /\ Method(t, f, "unlock", kind)
  /\ IF Guard(f).locked THEN DoUnlock(kind, t) /\ SetLocked(f, FALSE)
                        ELSE UNCHANGED <<excl, rw, guards>>

Destruct(t, f, kind) ==
  /\ Method(t, f, "~Lock", kind)
  /\ IF Guard(f).locked THEN DoUnlock(kind, t) ELSE UNCHANGED <<excl, rw>>
  /\ guards' = [guards EXCEPT ![f] = Front(@)]

GuardStep(t, f, kind) == Construct(t, f, kind) \/ GuardLock(t, f, kind)
                           \/ GuardUnlock(t, f, kind) \/ Destruct(t, f, kind)

ScopedLockImpl(t, f)      == GuardStep(t, f, "Lock")
ReadScopedLockImpl(t, f)  == GuardStep(t, f, "ReadLock")
WriteScopedLockImpl(t, f) == GuardStep(t, f, "WriteLock")

-----------------------------------------------------------------------------
\* The task returns to MainFunc.
Return(t, f) ==
  /\ Ready(t, f, "return")
  /\ MainFuncEnds(t)
  /\ UNCHANGED <<mutex, at, task, pool, starters, aborted, prog, pc, phase, semaVars,
                 calls, got, lockVars, late>>

TaskStep(t, f) == notify(t, f) \/ tryWait(t, f) \/ wait(t, f) \/ Park(t, f)
                    \/ Woken(t, f) \/ reset(t, f) \/ ScopedLockImpl(t, f)
                    \/ ReadScopedLockImpl(t, f) \/ WriteScopedLockImpl(t, f)
                    \/ Return(t, f)

Untouched == UNCHANGED <<prog, pc, phase, semaVars, calls, got, lockVars, late>>

MainStep == \/ MainNotify
            \/ spin # Root /\ (Stop \/ Join) /\ Untouched

Step(t) == \/ ThreadStep(t) /\ Untouched
           \/ Acquire(t)
           \/ \E f \in Tasks : TaskStep(t, f)
           \/ t = Root /\ MainStep
           \/ t \in Workers /\ StartStep(t) /\ Untouched

Init ==
  /\ SwitchInit
  /\ prog \in Scenarios /\ pc = [f \in Tasks |-> 1] /\ phase = [f \in Tasks |-> "go"]
  /\ concurrency = Initial /\ waiters = <<>> /\ spin = None /\ seen = 0
  /\ given = Initial /\ got = 0 /\ lost = 0 /\ calls = 0
  /\ excl = FALSE /\ rw = NoLock /\ guards = [f \in Tasks |-> <<>>]
  /\ raced = FALSE /\ late = FALSE /\ misused = FALSE

Next == \E t \in Threads : Step(t)
Spec == Init /\ [][Next]_vars
FairSpec == Spec /\ \A t \in Threads : WF_vars(Step(t))
-----------------------------------------------------------------------------
TypeOK ==
  /\ SwitchTypeOK
  /\ pc \in [Tasks -> Nat] /\ phase \in [Tasks -> {"go", "parked", "away"}]
  /\ concurrency \in 0..SizeMax /\ seen \in 0..SizeMax
  /\ waiters \in Seq(Tasks) /\ spin \in Threads \cup {None}
  /\ rw.writer \in Threads \cup {None} /\ rw.readers \in Nat

\* The fibers that notify() has taken off the list and whose wait() has not
\* returned yet.
Pending == {f \in Tasks : phase[f] # "go" /\ ~Contains(waiters, f)}

\* Every unit is in the count, with a wait() that has returned, on its way to
\* a waiter, or dropped by reset(), and nobody waits while the count is above
\* zero; unless reset() ran inside a critical section, which it may because
\* it takes no lock (mutex.h:440): the count it clears is then written back,
\* or decremented below zero (mutex.cpp:41, 53 and 69), or so many units were
\* given that the count may have wrapped around.
UnitsKept ==
  \/ raced \/ given > SizeMax
  \/ /\ concurrency + got + Cardinality(Pending) + lost = given
     /\ concurrency > 0 => waiters = <<>>

\* Two guards of different tasks exclude each other unless both read, and a
\* lock is held exactly as its guards say; unless a guard was constructed
\* inside another of its task or was still locked when its task waited
\* (mutex.h:83-88: the thread that unlocks need not be the one that locked;
\* 293: EDEADLK is ignored).
GuardsExclude ==
  misused \/
    LET Held(kind) == {f \in Tasks : \E i \in DOMAIN guards[f] :
                                       guards[f][i] = [kind |-> kind, locked |-> TRUE]}
    IN  /\ Cardinality(Held("Lock")) = IF excl THEN 1 ELSE 0
        /\ Cardinality(Held("ReadLock")) = rw.readers
        /\ Cardinality(Held("WriteLock")) = IF rw.writer = None THEN 0 ELSE 1
        /\ Held("WriteLock") = {} \/ Held("ReadLock") = {}

\* resume()'s assertion fails only in a second stop() that finds a fiber
\* notified after the first one had returned (scheduler.cpp:210: the
\* scheduler fiber has ended).
AbortsOnlyLate == aborted => late

\* A fiber that was notified has its wait() returned, on whichever thread;
\* unless a lock was misused or stop() had returned before (mutex.cpp:63-67,
\* scheduler.cpp:137-148: it may be scheduled before it has left its thread).
NotifiedReturns ==
  \A f \in Tasks : f \in Pending ~> (f \notin Pending \/ misused \/ late)
=============================================================================
