---------------------------- MODULE TimerManager ----------------------------
(***************************************************************************)
(* The timers of corlib (timer.h, timer.cpp): TimerManager keeps them in a *)
(* std::set ordered by Timer::m_next and nothing else, so that two timers  *)
(* with the same deadline are one key; cancel, refresh and reset find a    *)
(* timer in the set by that key.                                           *)
(*                                                                         *)
(* m_mutex makes addTimer, cancel, refresh and each half of reset one      *)
(* step; listExpiredCb reads the clock before it takes the mutex and holds *)
(* it for the whole loop, whose iterations are steps here.                 *)
(*                                                                         *)
(* A reading of the system clock is tick * Unit + reads: the milliseconds  *)
(* passed and, in place of the nanoseconds, the number of readings taken.  *)
(* No two readings are equal, so deadlines coincide only where the code    *)
(* computes them from one reading.                                         *)
(***************************************************************************)
EXTENDS Naturals, FiniteSets

CONSTANTS
  Timers,     \* the Timer objects the application can create
  Durations,  \* values of m_ms
  Unit,       \* readings that fit into a millisecond
  Hour,       \* detectClockRollover's tolerance of an hour
  MaxTick,    \* bound: the last millisecond
  MaxReads,   \* bound: readings that produce a deadline
  MaxBack     \* bound: how often the system clock is set back

ASSUME TimersAssumption == Durations \subseteq Nat
ASSUME ClockAssumption ==
  /\ MaxTick \in Nat /\ MaxBack \in Nat /\ Hour \in Nat
  /\ MaxReads \in Nat \ {0} /\ Unit \in Nat /\ MaxReads < Unit

VARIABLES
  tick, reads, backs,    \* the system clock, and how often it was set back
  prev,      \* m_previouseTime
  heap,      \* m_timers
  next,      \* Timer::m_next; 0 before the timer is created
  ms,        \* Timer::m_ms
  hasCb,     \* Timer::m_cb is not null
  recurring, \* timers with m_recurring
  resetting, \* timers that reset() has taken out and will insert again
  crossed,   \* those that were cancelled in between (history)
  clash,     \* two timers have had one deadline (history)
  lister,    \* where listExpiredCb is
  now,       \* its local variable now
  rollover,  \* its local variable rollover
  cbs        \* the timers whose callbacks it has put into cbs

clockVars == <<tick, reads, backs>>
timerVars == <<heap, next, ms, hasCb, recurring, resetting, crossed, clash>>
listVars  == <<lister, now, rollover, cbs>>
vars == <<clockVars, prev, timerVars, listVars>>

Never == 0
Reading == tick * Unit + reads

(* A reading that a deadline is computed from.                             *)
ReadClock ==
  /\ reads < MaxReads /\ reads' = reads + 1
  /\ UNCHANGED <<tick, backs>>

Unlocked == lister # "loop"
Quiet(t) == t \notin resetting      \* no thread is inside reset() of t

\* What m_timers.find(t) finds in H, and what insert(t) makes of H.
Find(H, t) == {u \in H : next[u] = next[t]}
Inserted(H, t, at) == IF \E u \in H : next[u] = at THEN H ELSE H \cup {t}

SetNext(t, at) ==
  /\ next' = [next EXCEPT ![t] = at]
  /\ clash' = (clash \/ \E u \in (heap \cup resetting) \ {t} : next[u] = at)

(* t gets a new deadline and enters the set H.                             *)
Insert(H, t, at) ==
  /\ SetNext(t, at)
  /\ heap' = Inserted(H, t, at)

-----------------------------------------------------------------------------
(* TimerManager::addTimer and the methods of Timer.                        *)

\* Mutant: the timer remembers its deadline where its period belongs.
AddStoresDeadline(t, d) ==
  /\ Unlocked /\ next[t] = Never
  /\ ReadClock
  /\ ms' = [ms EXCEPT ![t] = Reading + d * Unit]
  /\ hasCb' = [hasCb EXCEPT ![t] = TRUE]
  /\ recurring' \in {recurring, recurring \cup {t}}
  /\ Insert(heap, t, Reading + d * Unit)
  /\ UNCHANGED <<prev, resetting, crossed, listVars>>

addTimer(t, d) ==
  /\ Unlocked /\ next[t] = Never
  /\ ReadClock
  /\ ms' = [ms EXCEPT ![t] = d]
  /\ hasCb' = [hasCb EXCEPT ![t] = TRUE]
  /\ recurring' \in {recurring, recurring \cup {t}}
  /\ Insert(heap, t, Reading + d * Unit)
  /\ UNCHANGED <<prev, resetting, crossed, listVars>>

(* cancel() of a timer without callback returns false and changes nothing. *)
(* It may come from another thread than the one inside reset().            *)
cancel(t) ==
  /\ Unlocked /\ hasCb[t]
  /\ hasCb' = [hasCb EXCEPT ![t] = FALSE]
  /\ heap' = heap \ Find(heap, t)
  /\ crossed' = crossed \cup ({t} \cap resetting)
  /\ UNCHANGED <<clockVars, prev, next, ms, recurring, resetting, clash, listVars>>

refresh(t) ==
  /\ Unlocked /\ hasCb[t] /\ Quiet(t) /\ Find(heap, t) # {}
  /\ ReadClock
  /\ Insert(heap \ Find(heap, t), t, Reading + ms[t] * Unit)
  /\ UNCHANGED <<prev, ms, hasCb, recurring, resetting, crossed, listVars>>

(* reset() takes the timer out, unlocks and computes the new deadline ...   *)
ResetErase(t, d) ==
  /\ Unlocked /\ hasCb[t] /\ Quiet(t) /\ Find(heap, t) # {}
  /\ heap' = heap \ Find(heap, t)
  /\ \/ ReadClock /\ SetNext(t, Reading + d * Unit)              \* from_now
     \/ /\ d # ms[t] /\ SetNext(t, next[t] - ms[t] * Unit + d * Unit)
        /\ UNCHANGED clockVars
  /\ ms' = [ms EXCEPT ![t] = d]
  /\ resetting' = resetting \cup {t}
  /\ UNCHANGED <<prev, hasCb, recurring, crossed, listVars>>

\* Mutant: reset() does not put back what it took out.
ResetForgets(t) ==
  /\ Unlocked /\ ~Quiet(t)
  /\ resetting' = resetting \ {t}
  /\ UNCHANGED <<clockVars, prev, heap, next, ms, hasCb, recurring, crossed, clash, listVars>>

(* ... and puts it back through addTimer(timer).                           *)
ResetInsert(t) ==
  /\ Unlocked /\ ~Quiet(t)
  /\ heap' = Inserted(heap, t, next[t])
  /\ resetting' = resetting \ {t}
  /\ UNCHANGED <<clockVars, prev, next, ms, hasCb, recurring, crossed, clash, listVars>>

-----------------------------------------------------------------------------
(* TimerManager::listExpiredCb.                                            *)

ListRead ==
  /\ lister = "out"
  /\ ReadClock
  /\ now' = Reading /\ cbs' = {} /\ lister' = "read"
  /\ UNCHANGED <<prev, timerVars, rollover>>

\* Mutant: the hour is added on the wrong side of the comparison.
LockRollsOver ==
  /\ lister = "read"
  /\ rollover' = (Reading < prev + Hour * Unit)
  /\ prev' = Reading /\ lister' = "loop"
  /\ UNCHANGED <<clockVars, timerVars, now, cbs>>

(* Take the mutex; detectClockRollover reads the clock again.              *)
ListLock ==
  /\ lister = "read"
  /\ rollover' = (Reading + Hour * Unit < prev)
  /\ prev' = Reading /\ lister' = "loop"
  /\ UNCHANGED <<clockVars, timerVars, now, cbs>>

IsFirst(t) == t \in heap /\ \A u \in heap : next[t] <= next[u]
Expired(t) == rollover \/ next[t] <= now

\* Mutant: a recurring timer keeps the deadline that has passed.
TakeKeepsDeadline(t) ==
  /\ lister = "loop" /\ IsFirst(t) /\ Expired(t)
  /\ cbs' = cbs \cup {t}
  /\ IF t \in recurring
     THEN UNCHANGED <<heap, hasCb>>
     ELSE heap' = heap \ {t} /\ hasCb' = [hasCb EXCEPT ![t] = FALSE]
  /\ UNCHANGED <<clockVars, prev, next, ms, recurring, resetting, crossed, clash, lister, now, rollover>>

(* One iteration: the first timer leaves the set, or enters it again.  A   *)
(* null callback is collected, too, and then ignored by scheduleLock.      *)
ListTake(t) ==
  /\ lister = "loop" /\ IsFirst(t) /\ Expired(t)
  /\ cbs' = IF hasCb[t] THEN cbs \cup {t} ELSE cbs
  /\ IF t \in recurring
     THEN Insert(heap \ {t}, t, now + ms[t] * Unit) /\ UNCHANGED hasCb
     ELSE /\ heap' = heap \ {t}
          /\ hasCb' = [hasCb EXCEPT ![t] = FALSE]
          /\ UNCHANGED <<next, clash>>
  /\ UNCHANGED <<clockVars, prev, ms, recurring, resetting, crossed, lister, now, rollover>>

ListDone ==
  /\ lister = "loop"
  /\ \A t \in heap : IsFirst(t) => ~Expired(t)
  /\ lister' = "out"
  /\ UNCHANGED <<clockVars, prev, timerVars, now, rollover, cbs>>

-----------------------------------------------------------------------------
Tick ==
  /\ tick < MaxTick /\ tick' = tick + 1
  /\ UNCHANGED <<reads, backs, prev, timerVars, listVars>>

(* The administrator sets the system clock back to any earlier time.       *)
SetBack ==
  /\ backs < MaxBack /\ backs' = backs + 1
  /\ tick' \in 0..tick /\ tick' < tick
  /\ UNCHANGED <<reads, prev, timerVars, listVars>>

Init ==
  /\ tick = 0 /\ reads = 1 /\ backs = 0 /\ prev = 0
  /\ heap = {} /\ next = [t \in Timers |-> Never]
  /\ ms = [t \in Timers |-> 0] /\ hasCb = [t \in Timers |-> FALSE]
  /\ recurring = {} /\ resetting = {} /\ crossed = {} /\ clash = FALSE
  /\ lister = "out" /\ now = 0 /\ rollover = FALSE /\ cbs = {}

TimerCall(t) ==
  \/ \E d \in Durations : addTimer(t, d) \/ ResetErase(t, d)
  \/ cancel(t) \/ refresh(t) \/ ResetInsert(t)

ListStep == ListLock \/ ListDone \/ \E t \in Timers : ListTake(t)

Next ==
  \/ \E t \in Timers : TimerCall(t)
  \/ ListRead \/ ListStep
  \/ Tick \/ SetBack

Spec == Init /\ [][Next]_vars
(* A thread inside listExpiredCb keeps running.                            *)
FairSpec == Spec /\ WF_vars(ListStep)

-----------------------------------------------------------------------------
(* The types; a period is one that a caller gave (m_ms, timer.h), never a  *)
(* deadline, whatever reset() and refresh() compute.                       *)
TypeOK ==
  /\ tick \in 0..MaxTick /\ reads \in 1..MaxReads /\ backs \in 0..MaxBack
  /\ prev \in Nat /\ heap \subseteq Timers
  /\ next \in [Timers -> Nat] /\ ms \in [Timers -> Durations \cup {0}]
  /\ hasCb \in [Timers -> BOOLEAN] /\ recurring \cup resetting \cup crossed \subseteq Timers
  /\ lister \in {"out", "read", "loop"} /\ now \in Nat
  /\ rollover \in BOOLEAN /\ clash \in BOOLEAN /\ cbs \subseteq Timers

(* A timer with a callback is in the set unless reset() has it in its      *)
(* hands, and only such a timer is: find() never takes one for another, a  *)
(* cancelled one is gone ("从时间堆中删除timer", timer.h:20).  Two exceptions:   *)
(* a timer cancelled inside its own reset() comes back without a callback  *)
(* (timer.cpp:80), and two timers with one deadline are one key, which two *)
(* recurring ones of equal periods come to have when one call puts them    *)
(* both back (timer.cpp:182): one of them is dropped.                      *)
ArmedInHeap ==
  clash \/ \A t \in Timers : /\ hasCb[t] => (t \in heap <=> Quiet(t))
                             /\ t \in heap /\ ~hasCb[t] => t \in crossed

(* A recurring timer of period 0 that is due: what puts it back makes it   *)
(* due again.                                                              *)
Spins(t) == t \in heap \cap recurring /\ ms[t] = 0 /\ next[t] <= now

(* listExpiredCb returns with the expired callbacks, whatever recurring    *)
(* timers it puts back ("清理所有超时的定时器", timer.cpp:171), unless it     *)
(* has found the clock set back by more than an hour or takes a recurring  *)
(* timer of period 0: those it puts back for ever (timer.cpp:172-183).     *)
ListReturns ==
  lister = "loop" /\ ~rollover /\ (\A t \in Timers : ~Spins(t)) ~> lister = "out"

-----------------------------------------------------------------------------
Service == INSTANCE TimerService WITH
  clock <- Reading, adjusted <- backs > 0,
  armed <- {t \in Timers : hasCb[t]}, listed <- cbs,
  deadline <- [t \in Timers |-> IF hasCb[t] THEN next[t] ELSE Never]

(* Whatever calls interleave with listExpiredCb, a timer expires after its *)
(* deadline, a one-shot timer once, and a cancelled one never.             *)
ImplementsService == Service!Spec
=============================================================================
