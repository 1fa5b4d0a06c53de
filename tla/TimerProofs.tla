---------------------------- MODULE TimerProofs ----------------------------
(***************************************************************************)
(* Proofs about the timers.                                                *)
(*                                                                         *)
(* TimerManager, for any timers, periods and bounds: the types, that the   *)
(* armed timers are the ones in the set, and that the manager implements   *)
(* TimerService.  ArmedInHeap is kept because, as long as no two deadlines *)
(* have met, find(t) finds t or nothing: the timers in the set and those   *)
(* inside reset() have different deadlines (Keys).  No reset makes a       *)
(* deadline negative because it lies beyond one period of its timer        *)
(* (Deadlines).  A timer is not early because listExpiredCb's readings are *)
(* of the past, unless the clock has been set back (Readings).             *)
(*                                                                         *)
(* TimerWakeup, for any number of workers, other threads and instants: the *)
(* types, that no deadline is slept through while every worker is in       *)
(* epoll_wait, and that time passes no deadline then.  NoOversleep is not  *)
(* inductive alone.  addTimer() leaves the pipe alone when m_tickled is    *)
(* set, so that it has to be known what the flag says (TickledWakes): a    *)
(* thread has tickled or is about to, and no worker has gone back to       *)
(* epoll_wait since.  And tickle() trusts m_idleThreadCount, which has to  *)
(* be the number of idle workers.                                          *)
(***************************************************************************)
EXTENDS TimerManager, TimerWakeup, FiniteSetTheorems, WellFoundedInduction,
        TLAPS

Deadlines ==
  \A t \in Timers : IF next[t] = Never THEN t \notin heap \cup resetting /\ ~hasCb[t]
                                       ELSE next[t] > ms[t] * Unit

Keys ==
  clash \/ /\ \A t, u \in heap \cup resetting : next[t] = next[u] => t = u
           /\ heap \cap resetting = {}
           /\ \A t \in resetting : hasCb[t] \/ t \in crossed

Readings ==
  /\ prev <= Reading \/ backs > 0
  /\ lister # "out" => now > 0 /\ (now <= Reading \/ backs > 0)
  /\ lister = "loop" /\ rollover => backs > 0

IndInv == TypeOK /\ Deadlines /\ Keys /\ ArmedInHeap /\ Readings

-----------------------------------------------------------------------------
LEMMA PeriodIsNat ==
  ASSUME NEW d \in Nat
  PROVE  d * Unit \in Nat
  BY ClockAssumption

(* The numbers a step computes with: a reading is positive, and a period   *)
(* of a timer is a natural number of readings.                             *)
LEMMA Numbers ==
  ASSUME TypeOK
  PROVE  /\ Reading \in Nat /\ Reading > 0
         /\ \A t \in Timers : /\ ms[t] \in Nat /\ ms[t] * Unit \in Nat
                              /\ next[t] \in Nat
         /\ \A d \in Durations : d \in Nat /\ d * Unit \in Nat
  <1>1. tick \in Nat /\ reads \in Nat /\ reads > 0
    BY ClockAssumption DEF TypeOK
  <1>2. tick * Unit \in Nat
    BY <1>1, PeriodIsNat
  <1>3. Reading \in Nat /\ Reading > 0
    BY <1>1, <1>2 DEF Reading
  <1>4. \A d \in Durations : d \in Nat /\ d * Unit \in Nat
    BY TimersAssumption, PeriodIsNat
  <1>5. ASSUME NEW t \in Timers
        PROVE  ms[t] \in Nat /\ next[t] \in Nat
    <2>1. (ms[t] \in Durations \/ ms[t] = 0) /\ next[t] \in Nat
      BY DEF TypeOK
    <2> QED
      BY <2>1, <1>4
  <1> QED
    BY <1>3, <1>4, <1>5, PeriodIsNat

(* The clock reading and the call of listExpiredCb leave Reading as a      *)
(* natural number that has not gone back, unless SetBack was taken.        *)
LEMMA ClockMoves ==
  ASSUME TypeOK, [Next]_vars
  PROVE  /\ tick' \in 0..MaxTick /\ reads' \in 1..MaxReads /\ backs' \in 0..MaxBack
         /\ Reading' \in Nat
         /\ backs' >= backs
         /\ Reading' >= Reading \/ backs' > 0
  <1>1. tick \in Nat /\ reads \in Nat /\ backs \in Nat /\ MaxTick \in Nat /\ MaxReads \in Nat
         /\ MaxBack \in Nat /\ Unit \in Nat /\ tick * Unit \in Nat
         /\ tick <= MaxTick /\ 1 <= reads /\ reads <= MaxReads /\ backs <= MaxBack
    BY ClockAssumption, PeriodIsNat DEF TypeOK
  <1>2. CASE UNCHANGED clockVars
    BY <1>1, <1>2 DEF clockVars, Reading
  <1>3. CASE ReadClock
    BY <1>1, <1>3 DEF ReadClock, Reading
  <1>4. CASE Tick
    <2>1. (tick + 1) * Unit = tick * Unit + Unit
      BY <1>1
    <2> QED
      BY <1>1, <1>4, <2>1 DEF Tick, Reading
  <1>5. CASE SetBack
    <2>1. tick' \in 0..tick /\ backs < MaxBack /\ backs' = backs + 1 /\ reads' = reads
      BY <1>5 DEF SetBack
    <2>2. tick' \in Nat /\ tick' <= MaxTick
      BY <1>1, <2>1
    <2>3. tick' * Unit \in Nat
      BY <2>2, PeriodIsNat
    <2>4. Reading' \in Nat
      <3>1. reads' \in Nat
        BY <1>1, <2>1
      <3> QED
        BY <2>3, <3>1 DEF Reading
    <2> QED
      BY <1>1, <2>1, <2>2, <2>4
  <1>6. UNCHANGED clockVars \/ ReadClock \/ Tick \/ SetBack
    BY DEF Next, vars, TimerCall, addTimer, cancel, refresh, ResetErase, ResetInsert,
           ListRead, ListStep, ListLock, ListDone, ListTake, clockVars
  <1> QED
    BY <1>2, <1>3, <1>4, <1>5, <1>6

(* An insertion of t at a time that no other timer has.                    *)
LEMMA InsertEffect ==
  ASSUME NEW t \in Timers, NEW H \in SUBSET heap, NEW at \in Nat,
         TypeOK, Insert(H, t, at)
  PROVE  /\ heap' \subseteq H \cup {t} /\ H \subseteq heap'
         /\ next' \in [Timers -> Nat] /\ clash' \in BOOLEAN
         /\ next' = [next EXCEPT ![t] = at]
         /\ clash => clash'
         /\ ~clash' => /\ \A u \in (heap \cup resetting) \ {t} : next[u] # at
                       /\ t \notin H => heap' = H \cup {t}
  BY DEF TypeOK, Insert, SetNext, Inserted

-----------------------------------------------------------------------------
LEMMA InitInductive == Init => IndInv
  <1> SUFFICES ASSUME Init
               PROVE  IndInv
    OBVIOUS
  <1>1. TypeOK
    <2>1. tick \in 0..MaxTick /\ reads \in 1..MaxReads /\ backs \in 0..MaxBack
      BY ClockAssumption DEF Init
    <2>2. next \in [Timers -> Nat] /\ ms \in [Timers -> Durations \cup {0}]
            /\ hasCb \in [Timers -> BOOLEAN]
      BY DEF Init, Never
    <2> QED
      BY <2>1, <2>2 DEF Init, TypeOK
  <1>2. Deadlines /\ Keys /\ ArmedInHeap
    BY DEF Init, Deadlines, Keys, ArmedInHeap, Quiet
  <1>3. Reading \in Nat
    BY <1>1, Numbers
  <1>4. Readings
    BY <1>3 DEF Init, Readings
  <1> QED
    BY <1>1, <1>2, <1>4 DEF IndInv

LEMMA TypesInductive == IndInv /\ [Next]_vars => TypeOK'
  <1> SUFFICES ASSUME TypeOK, Deadlines, Keys, [Next]_vars
               PROVE  TypeOK'
    BY DEF IndInv
  <1>1. tick' \in 0..MaxTick /\ reads' \in 1..MaxReads /\ backs' \in 0..MaxBack
    BY ClockMoves
  <1>2. Reading \in Nat
    BY Numbers
  <1>3. ASSUME NEW t \in Timers, NEW d \in Durations, addTimer(t, d)
        PROVE  TypeOK'
    <2>1. Reading + d * Unit \in Nat
      BY Numbers
    <2>2. Insert(heap, t, Reading + d * Unit)
      BY <1>3 DEF addTimer
    <2>3. heap' \subseteq heap \cup {t} /\ next' \in [Timers -> Nat] /\ clash' \in BOOLEAN
      BY <2>1, <2>2, InsertEffect
    <2> QED
      BY <1>1, <1>3, <2>3 DEF TypeOK, addTimer, listVars
  <1>4. ASSUME NEW t \in Timers, cancel(t)
        PROVE  TypeOK'
    BY <1>1, <1>4 DEF TypeOK, cancel, listVars, Find
  <1>5. ASSUME NEW t \in Timers, refresh(t)
        PROVE  TypeOK'
    <2>1. Reading + ms[t] * Unit \in Nat
      BY Numbers
    <2>2. Insert(heap \ Find(heap, t), t, Reading + ms[t] * Unit)
      BY <1>5 DEF refresh
    <2>3. heap' \subseteq heap \cup {t} /\ next' \in [Timers -> Nat] /\ clash' \in BOOLEAN
      BY <2>1, <2>2, InsertEffect
    <2> QED
      BY <1>1, <1>5, <2>3 DEF TypeOK, refresh, listVars
  <1>6. ASSUME NEW t \in Timers, NEW d \in Durations, ResetErase(t, d)
        PROVE  TypeOK'
    <2>1. PICK at \in Nat : SetNext(t, at)
      <3>1. next[t] > ms[t] * Unit
        BY <1>6 DEF Deadlines, ResetErase
      <3>2. Reading + d * Unit \in Nat /\ next[t] - ms[t] * Unit + d * Unit \in Nat
        BY <3>1, Numbers
      <3> QED
        BY <1>6, <3>2 DEF ResetErase
    <2>2. next' \in [Timers -> Nat] /\ clash' \in BOOLEAN
      BY <2>1 DEF SetNext, TypeOK
    <2> QED
      BY <1>1, <1>6, <2>2 DEF TypeOK, ResetErase, listVars
  <1>7. ASSUME NEW t \in Timers, ResetInsert(t)
        PROVE  TypeOK'
    BY <1>1, <1>7 DEF TypeOK, ResetInsert, listVars, Inserted
  <1>8. CASE ListRead
    BY <1>1, <1>2, <1>8 DEF TypeOK, ListRead, timerVars
  <1>9. CASE ListLock
    BY <1>1, <1>2, <1>9 DEF TypeOK, ListLock, timerVars
  <1>10. ASSUME NEW t \in Timers, ListTake(t)
         PROVE  TypeOK'
    <2>1. CASE t \in recurring
      <3>1. now + ms[t] * Unit \in Nat
        BY Numbers DEF TypeOK
      <3>2. Insert(heap \ {t}, t, now + ms[t] * Unit)
        BY <1>10, <2>1 DEF ListTake
      <3>3. heap' \subseteq heap \cup {t} /\ next' \in [Timers -> Nat] /\ clash' \in BOOLEAN
        BY <3>1, <3>2, InsertEffect
      <3> QED
        BY <1>1, <1>10, <2>1, <3>3 DEF TypeOK, ListTake
    <2>2. CASE t \notin recurring
      BY <1>1, <1>10, <2>2 DEF TypeOK, ListTake
    <2> QED
      BY <2>1, <2>2
  <1>11. CASE ListDone
    BY <1>1, <1>11 DEF TypeOK, ListDone, timerVars
  <1>12. CASE Tick
    BY <1>1, <1>12 DEF TypeOK, Tick, timerVars, listVars
  <1>13. CASE SetBack
    BY <1>1, <1>13 DEF TypeOK, SetBack, timerVars, listVars
  <1>14. CASE UNCHANGED vars
    BY <1>14 DEF TypeOK, vars, clockVars, timerVars, listVars
  <1> QED
    BY <1>3, <1>4, <1>5, <1>6, <1>7, <1>8, <1>9, <1>10, <1>11, <1>12, <1>13, <1>14
       DEF Next, TimerCall, ListStep

LEMMA DeadlinesInductive == IndInv /\ [Next]_vars => Deadlines'
  <1> SUFFICES ASSUME TypeOK, Deadlines, Readings, [Next]_vars,
                      NEW s \in Timers
               PROVE  IF next'[s] = Never THEN s \notin heap' \cup resetting' /\ ~hasCb'[s]
                                          ELSE next'[s] > ms'[s] * Unit
    BY DEF IndInv, Deadlines
  <1> DEFINE Before == IF next[s] = Never THEN s \notin heap \cup resetting /\ ~hasCb[s]
                                          ELSE next[s] > ms[s] * Unit
  <1>1. Before
    BY DEF Deadlines
  <1>2. Reading \in Nat /\ Reading > 0
    BY Numbers
  <1>3. ASSUME NEW t \in Timers, NEW d \in Durations, addTimer(t, d)
        PROVE  IF next'[s] = Never THEN s \notin heap' \cup resetting' /\ ~hasCb'[s]
                                   ELSE next'[s] > ms'[s] * Unit
    <2>1. d * Unit \in Nat /\ Reading + d * Unit \in Nat
      BY Numbers
    <2>2. Insert(heap, t, Reading + d * Unit)
      BY <1>3 DEF addTimer
    <2>3. heap' \subseteq heap \cup {t} /\ next' = [next EXCEPT ![t] = Reading + d * Unit]
      BY <2>1, <2>2, InsertEffect
    <2>4. CASE s = t
      <3>1. next'[s] = Reading + d * Unit /\ ms'[s] = d
        BY <1>3, <2>3, <2>4 DEF addTimer, TypeOK
      <3> QED
        BY <1>2, <2>1, <3>1 DEF Never
    <2>5. CASE s # t
      BY <1>1, <1>3, <2>3, <2>5 DEF addTimer, TypeOK
    <2> QED
      BY <2>4, <2>5
  <1>4. ASSUME NEW t \in Timers, cancel(t)
        PROVE  IF next'[s] = Never THEN s \notin heap' \cup resetting' /\ ~hasCb'[s]
                                   ELSE next'[s] > ms'[s] * Unit
    BY <1>1, <1>4 DEF cancel, TypeOK
  <1>5. ASSUME NEW t \in Timers, refresh(t)
        PROVE  IF next'[s] = Never THEN s \notin heap' \cup resetting' /\ ~hasCb'[s]
                                   ELSE next'[s] > ms'[s] * Unit
    <2>1. ms[t] * Unit \in Nat /\ Reading + ms[t] * Unit \in Nat
      BY Numbers
    <2>2. Insert(heap \ Find(heap, t), t, Reading + ms[t] * Unit)
      BY <1>5 DEF refresh
    <2>3. /\ heap' \subseteq heap \cup {t}
          /\ next' = [next EXCEPT ![t] = Reading + ms[t] * Unit]
      BY <2>1, <2>2, InsertEffect
    <2>4. CASE s = t
      <3>1. next'[s] = Reading + ms[s] * Unit /\ ms'[s] = ms[s]
        BY <1>5, <2>3, <2>4 DEF refresh, TypeOK
      <3> QED
        BY <1>2, <2>1, <2>4, <3>1 DEF Never
    <2>5. CASE s # t
      BY <1>1, <1>5, <2>3, <2>5 DEF refresh, TypeOK
    <2> QED
      BY <2>4, <2>5
  <1>6. ASSUME NEW t \in Timers, NEW d \in Durations, ResetErase(t, d)
        PROVE  IF next'[s] = Never THEN s \notin heap' \cup resetting' /\ ~hasCb'[s]
                                   ELSE next'[s] > ms'[s] * Unit
    <2>1. CASE s = t
      <3>1. next[t] > ms[t] * Unit
        BY <1>6 DEF Deadlines, ResetErase
      <3>2. ms'[s] = d /\ next'[s] \in {Reading + d * Unit, next[t] - ms[t] * Unit + d * Unit}
        BY <1>6, <2>1 DEF ResetErase, SetNext, TypeOK
      <3>3. next[t] \in Nat /\ ms[t] * Unit \in Nat /\ d * Unit \in Nat
        BY Numbers
      <3>4. next'[s] > d * Unit /\ next'[s] # 0
        BY <1>2, <3>1, <3>2, <3>3
      <3> QED
        BY <3>2, <3>4 DEF Never
    <2>2. CASE s # t
      <3>1. next'[s] = next[s] /\ ms'[s] = ms[s]
        BY <1>6, <2>2 DEF ResetErase, SetNext, TypeOK
      <3> QED
        BY <1>1, <1>6, <2>2, <3>1 DEF ResetErase
    <2> QED
      BY <2>1, <2>2
  <1>7. ASSUME NEW t \in Timers, ResetInsert(t)
        PROVE  IF next'[s] = Never THEN s \notin heap' \cup resetting' /\ ~hasCb'[s]
                                   ELSE next'[s] > ms'[s] * Unit
    BY <1>1, <1>7 DEF ResetInsert, Inserted, Quiet
  <1>8. ASSUME NEW t \in Timers, ListTake(t)
        PROVE  IF next'[s] = Never THEN s \notin heap' \cup resetting' /\ ~hasCb'[s]
                                   ELSE next'[s] > ms'[s] * Unit
    <2>1. now \in Nat /\ now > 0 /\ ms[t] * Unit \in Nat
      BY <1>8, Numbers DEF ListTake, Readings, TypeOK
    <2>2. CASE t \in recurring
      <3>1. Insert(heap \ {t}, t, now + ms[t] * Unit) /\ hasCb' = hasCb /\ ms' = ms
              /\ resetting' = resetting /\ t \in heap
        BY <1>8, <2>2 DEF ListTake, IsFirst
      <3>2. /\ heap' \subseteq heap \cup {t}
            /\ next' = [next EXCEPT ![t] = now + ms[t] * Unit]
        BY <2>1, <3>1, InsertEffect
      <3>3. CASE s = t
        <4>1. next'[s] = now + ms[s] * Unit
          BY <3>2, <3>3 DEF TypeOK
        <4> QED
          BY <2>1, <3>1, <3>3, <4>1 DEF Never
      <3>4. CASE s # t
        BY <1>1, <3>1, <3>2, <3>4 DEF TypeOK
      <3> QED
        BY <3>3, <3>4
    <2>3. CASE t \notin recurring
      BY <1>1, <1>8, <2>3 DEF ListTake, TypeOK
    <2> QED
      BY <2>2, <2>3
  <1>9. CASE UNCHANGED timerVars
    BY <1>1, <1>9 DEF timerVars
  <1>10. ListRead \/ ListLock \/ ListDone \/ Tick \/ SetBack \/ UNCHANGED vars
           => UNCHANGED timerVars
    BY DEF ListRead, ListLock, ListDone, Tick, SetBack, vars
  <1> QED
    BY <1>3, <1>4, <1>5, <1>6, <1>7, <1>8, <1>9, <1>10 DEF Next, TimerCall, ListStep

LEMMA ReadingsInductive == IndInv /\ [Next]_vars => Readings'
  <1> SUFFICES ASSUME TypeOK, Readings, [Next]_vars
               PROVE  Readings'
    BY DEF IndInv
  <1>1. /\ Reading \in Nat /\ Reading > 0 /\ Reading' \in Nat
        /\ backs \in Nat /\ backs' \in Nat /\ backs' >= backs
        /\ Reading' >= Reading \/ backs' > 0
        /\ now \in Nat /\ prev \in Nat
    BY Numbers, ClockMoves, ClockAssumption DEF TypeOK
  <1>2. CASE ListRead
    BY <1>1, <1>2 DEF ListRead, Readings
  <1>3. CASE ListLock
    <2>1. Hour * Unit \in Nat
      BY ClockAssumption
    <2>2. Reading' = Reading /\ backs' = backs
      BY <1>3 DEF ListLock, clockVars, Reading
    <2>3. rollover' => backs > 0
      <3>1. Reading + Hour * Unit < prev => backs > 0
        BY <1>1, <2>1 DEF Readings
      <3>2. rollover' = (Reading + Hour * Unit < prev)
        BY <1>3 DEF ListLock
      <3> QED
        BY <3>1, <3>2
    <2> QED
      BY <1>1, <1>3, <2>2, <2>3 DEF ListLock, Readings
  <1>4. CASE UNCHANGED <<prev, now, lister, rollover>>
    BY <1>1, <1>4 DEF Readings
  <1>5. CASE ListDone
    BY <1>1, <1>5 DEF ListDone, Readings
  <1>6. UNCHANGED <<prev, now, lister, rollover>> \/ ListRead \/ ListLock \/ ListDone
    BY DEF Next, vars, TimerCall, addTimer, cancel, refresh, ResetErase, ResetInsert,
           ListStep, ListTake, listVars, Tick, SetBack
  <1> QED
    BY <1>2, <1>3, <1>4, <1>5, <1>6

(* Keys and ArmedInHeap are kept together.  H is what is left of the set   *)
(* when find(t) was erased.                                                *)
LEMMA FindsItself ==
  ASSUME NEW t \in Timers, TypeOK, Keys, ~clash, t \in heap \cup resetting
  PROVE  Find(heap, t) = heap \cap {t}
  BY DEF Find, Keys, TypeOK

Placed == Keys /\ ArmedInHeap

LEMMA PlacedInductive == IndInv /\ [Next]_vars => Placed'
  <1> SUFFICES ASSUME TypeOK, Deadlines, Keys, ArmedInHeap, [Next]_vars, ~clash'
               PROVE  Placed'
    BY DEF IndInv, Placed, Keys, ArmedInHeap
  <1>1. ~clash
    <2>1. clash => clash'
      BY DEF Next, TimerCall, addTimer, cancel, refresh, ResetErase, ResetInsert, ListRead,
             ListStep, ListLock, ListDone, ListTake, Tick, SetBack, vars, timerVars, Insert,
             SetNext
    <2> QED
      BY <2>1
  <1>2. /\ \A t, u \in heap \cup resetting : next[t] = next[u] => t = u
        /\ heap \cap resetting = {}
        /\ \A t \in resetting : hasCb[t] \/ t \in crossed
        /\ \A t \in Timers : /\ hasCb[t] => (t \in heap <=> t \notin resetting)
                             /\ t \in heap /\ ~hasCb[t] => t \in crossed
    BY <1>1 DEF Keys, ArmedInHeap, Quiet
  <1>3. ASSUME NEW t \in Timers, NEW d \in Durations, addTimer(t, d)
        PROVE  Placed'
    <2>1. Reading + d * Unit \in Nat
      BY Numbers
    <2>2. Insert(heap, t, Reading + d * Unit) /\ t \notin heap \cup resetting
      BY <1>3 DEF addTimer, Deadlines
    <2>3. /\ heap' = heap \cup {t}
          /\ next' = [next EXCEPT ![t] = Reading + d * Unit]
          /\ \A u \in (heap \cup resetting) \ {t} : next[u] # Reading + d * Unit
      BY <2>1, <2>2, InsertEffect
    <2>4. resetting' = resetting /\ crossed' = crossed /\ hasCb' = [hasCb EXCEPT ![t] = TRUE]
      BY <1>3 DEF addTimer
    <2> QED
      BY <1>2, <2>2, <2>3, <2>4 DEF Placed, Keys, ArmedInHeap, Quiet, TypeOK
  <1>4. ASSUME NEW t \in Timers, cancel(t)
        PROVE  Placed'
    <2>1. t \in heap \cup resetting
      BY <1>2, <1>4 DEF cancel
    <2>2. Find(heap, t) = heap \cap {t}
      BY <1>1, <2>1, FindsItself
    <2>3. /\ heap' = heap \ {t} /\ next' = next /\ resetting' = resetting
          /\ hasCb' = [hasCb EXCEPT ![t] = FALSE]
          /\ crossed' = crossed \cup ({t} \cap resetting)
      BY <1>4, <2>2 DEF cancel
    <2> QED
      BY <1>2, <2>3 DEF Placed, Keys, ArmedInHeap, Quiet, TypeOK
  <1>5. ASSUME NEW t \in Timers, refresh(t)
        PROVE  Placed'
    <2>1. t \in heap /\ t \notin resetting /\ hasCb[t]
      BY <1>2, <1>5 DEF refresh, Quiet
    <2>2. Find(heap, t) = {t}
      BY <1>1, <2>1, FindsItself
    <2>3. Reading + ms[t] * Unit \in Nat
      BY Numbers
    <2>4. Insert(heap \ {t}, t, Reading + ms[t] * Unit)
      BY <1>5, <2>2 DEF refresh
    <2>5. /\ heap' = (heap \ {t}) \cup {t}
          /\ next' = [next EXCEPT ![t] = Reading + ms[t] * Unit]
          /\ \A u \in (heap \cup resetting) \ {t} : next[u] # Reading + ms[t] * Unit
      BY <2>3, <2>4, InsertEffect
    <2>6. heap' = heap /\ resetting' = resetting /\ crossed' = crossed /\ hasCb' = hasCb
      BY <1>5, <2>1, <2>5 DEF refresh
    <2> QED
      BY <1>2, <2>1, <2>5, <2>6 DEF Placed, Keys, ArmedInHeap, Quiet, TypeOK
  <1>6. ASSUME NEW t \in Timers, NEW d \in Durations, ResetErase(t, d)
        PROVE  Placed'
    <2>1. t \in heap /\ t \notin resetting /\ hasCb[t]
      BY <1>2, <1>6 DEF ResetErase, Quiet
    <2>2. Find(heap, t) = {t}
      BY <1>1, <2>1, FindsItself
    <2>3. PICK at : SetNext(t, at)
      BY <1>6 DEF ResetErase
    <2>4. /\ next' = [next EXCEPT ![t] = at]
          /\ \A u \in (heap \cup resetting) \ {t} : next[u] # at
      BY <2>3 DEF SetNext
    <2>5. /\ heap' = heap \ {t} /\ resetting' = resetting \cup {t}
          /\ crossed' = crossed /\ hasCb' = hasCb
      BY <1>6, <2>2 DEF ResetErase
    <2> QED
      BY <1>2, <2>1, <2>4, <2>5 DEF Placed, Keys, ArmedInHeap, Quiet, TypeOK
  <1>7. ASSUME NEW t \in Timers, ResetInsert(t)
        PROVE  Placed'
    <2>1. t \in resetting
      BY <1>7 DEF ResetInsert, Quiet
    <2>2. heap' = heap \cup {t}
      BY <1>2, <1>7, <2>1 DEF ResetInsert, Inserted
    <2>3. /\ next' = next /\ resetting' = resetting \ {t} /\ crossed' = crossed
          /\ hasCb' = hasCb
      BY <1>7 DEF ResetInsert
    <2> QED
      BY <1>2, <2>1, <2>2, <2>3 DEF Placed, Keys, ArmedInHeap, Quiet, TypeOK
  <1>8. ASSUME NEW t \in Timers, ListTake(t)
        PROVE  Placed'
    <2>1. t \in heap /\ resetting' = resetting /\ crossed' = crossed
      BY <1>8 DEF ListTake, IsFirst
    <2>2. CASE t \in recurring
      <3>1. now + ms[t] * Unit \in Nat
        BY Numbers DEF TypeOK
      <3>2. Insert(heap \ {t}, t, now + ms[t] * Unit) /\ hasCb' = hasCb
        BY <1>8, <2>2 DEF ListTake
      <3>3. /\ heap' = (heap \ {t}) \cup {t}
            /\ next' = [next EXCEPT ![t] = now + ms[t] * Unit]
            /\ \A u \in (heap \cup resetting) \ {t} : next[u] # now + ms[t] * Unit
        BY <3>1, <3>2, InsertEffect
      <3>4. heap' = heap
        BY <2>1, <3>3
      <3> QED
        BY <1>2, <2>1, <3>2, <3>3, <3>4 DEF Placed, Keys, ArmedInHeap, Quiet, TypeOK
    <2>3. CASE t \notin recurring
      <3>1. /\ heap' = heap \ {t} /\ hasCb' = [hasCb EXCEPT ![t] = FALSE] /\ next' = next
        BY <1>8, <2>3 DEF ListTake
      <3> QED
        BY <1>2, <2>1, <3>1 DEF Placed, Keys, ArmedInHeap, Quiet, TypeOK
    <2> QED
      BY <2>2, <2>3
  <1>9. CASE UNCHANGED timerVars
    BY <1>2, <1>9 DEF timerVars, Placed, Keys, ArmedInHeap, Quiet
  <1>10. ListRead \/ ListLock \/ ListDone \/ Tick \/ SetBack \/ UNCHANGED vars
           => UNCHANGED timerVars
    BY DEF ListRead, ListLock, ListDone, Tick, SetBack, vars
  <1> QED
    BY <1>3, <1>4, <1>5, <1>6, <1>7, <1>8, <1>9, <1>10 DEF Next, TimerCall, ListStep

LEMMA Inductive == Spec => []IndInv
  <1>1. IndInv /\ [Next]_vars => IndInv'
    BY TypesInductive, DeadlinesInductive, PlacedInductive, ReadingsInductive
       DEF IndInv, Placed
  <1> QED
    BY InitInductive, <1>1, PTL DEF Spec

(* Every deadline, period and reading stays a number, and a period is one  *)
(* that the caller gave, whatever reset() and refresh() compute from it.   *)
THEOREM TimerTypesHold == Spec => []TypeOK
  <1>1. IndInv => TypeOK
    BY DEF IndInv
  <1> QED
    BY Inductive, <1>1, PTL

(* The set holds the armed timers and no others, whatever calls come while *)
(* listExpiredCb or reset() is under way, as long as no deadlines meet.    *)
THEOREM ArmedInHeapHolds == Spec => []ArmedInHeap
  <1>1. IndInv => ArmedInHeap
    BY DEF IndInv
  <1> QED
    BY Inductive, <1>1, PTL

-----------------------------------------------------------------------------
(* The refinement of TimerService.                                         *)

LEMMA InitMaps == Init => Service!Init
  <1> SUFFICES ASSUME Init
               PROVE  Service!Init
    OBVIOUS
  <1>1. Reading \in Nat
    BY InitInductive, Numbers DEF IndInv
  <1>2. backs > 0 <=> FALSE
    BY DEF Init
  <1> QED
    BY <1>1, <1>2 DEF Init, Service!Init, Never

LEMMA StepMaps ==
  ASSUME IndInv, IndInv', [Next]_vars
  PROVE  [Service!Next]_(Service!vars)
  <1> DEFINE Armed == {t \in Timers : hasCb[t]}
             Deadline == [t \in Timers |-> IF hasCb[t] THEN next[t] ELSE Never]
  <1>0. TypeOK /\ Readings
    BY DEF IndInv
  <1>1. /\ Reading \in Nat /\ Reading' \in Nat /\ backs \in Nat /\ backs' \in Nat
        /\ backs' >= backs /\ (Reading' >= Reading \/ backs' > 0)
    BY <1>0, Numbers, ClockMoves, ClockAssumption DEF TypeOK
  <1>2. ASSUME NEW t \in Timers, NEW d \in Durations, addTimer(t, d)
        PROVE  Service!Next
    <2>1. ~hasCb[t]
      BY <1>2 DEF addTimer, IndInv, Deadlines
    <2>2. /\ hasCb' = [hasCb EXCEPT ![t] = TRUE] /\ backs' = backs /\ cbs' = cbs
          /\ recurring' \in {recurring, recurring \cup {t}}
          /\ next' = [next EXCEPT ![t] = Reading + d * Unit]
      BY <1>2 DEF addTimer, ReadClock, listVars, Insert, SetNext
    <2>3. Service!Add(t)
      BY <1>0, <2>1, <2>2 DEF Service!Add, Service!SetDeadline, TypeOK
    <2> QED
      BY <2>3 DEF Service!Next
  <1>3. ASSUME NEW t \in Timers, cancel(t)
        PROVE  Service!Next
    <2>1. /\ hasCb[t] /\ hasCb' = [hasCb EXCEPT ![t] = FALSE] /\ next' = next
          /\ recurring' = recurring /\ cbs' = cbs /\ backs' = backs
          /\ tick' = tick /\ reads' = reads
      BY <1>3 DEF cancel, clockVars, listVars
    <2>2. Service!Cancel(t)
      BY <1>0, <2>1 DEF Service!Cancel, Service!SetDeadline, TypeOK, Reading
    <2> QED
      BY <2>2 DEF Service!Next
  <1>4. ASSUME NEW t \in Timers, refresh(t)
        PROVE  Service!Next
    <2>1. /\ hasCb[t] /\ hasCb' = hasCb /\ backs' = backs /\ cbs' = cbs
          /\ recurring' = recurring
          /\ next' = [next EXCEPT ![t] = Reading + ms[t] * Unit]
      BY <1>4 DEF refresh, ReadClock, listVars, Insert, SetNext
    <2>2. Service!Postpone(t)
      BY <1>0, <2>1 DEF Service!Postpone, Service!SetDeadline, TypeOK
    <2> QED
      BY <2>2 DEF Service!Next
  <1>5. ASSUME NEW t \in Timers, NEW d \in Durations, ResetErase(t, d)
        PROVE  Service!Next
    <2>1. /\ hasCb[t] /\ hasCb' = hasCb /\ backs' = backs /\ cbs' = cbs
          /\ recurring' = recurring
          /\ \A u \in Timers \ {t} : next'[u] = next[u]
      BY <1>0, <1>5 DEF ResetErase, ReadClock, clockVars, listVars, SetNext, TypeOK
    <2>2. Service!Postpone(t)
      BY <1>0, <2>1 DEF Service!Postpone, Service!SetDeadline, TypeOK
    <2> QED
      BY <2>2 DEF Service!Next
  <1>6. ASSUME NEW t \in Timers, ListTake(t)
        PROVE  Service!Next \/ UNCHANGED Service!vars
    <2>1. /\ recurring' = recurring /\ tick' = tick /\ reads' = reads /\ backs' = backs
          /\ cbs' = (IF hasCb[t] THEN cbs \cup {t} ELSE cbs)
          /\ hasCb' = IF t \in recurring THEN hasCb ELSE [hasCb EXCEPT ![t] = FALSE]
          /\ \A u \in Timers \ {t} : next'[u] = next[u]
      BY <1>0, <1>6 DEF ListTake, clockVars, Insert, SetNext, TypeOK
    <2>2. Reading' = Reading
      BY <2>1 DEF Reading
    <2>3. next[t] <= Reading \/ backs > 0
      <3>1. (rollover => backs > 0) /\ now \in Nat /\ next[t] \in Nat
              /\ (now <= Reading \/ backs > 0)
        BY <1>0, <1>6 DEF ListTake, Readings, TypeOK
      <3>2. rollover \/ next[t] <= now
        BY <1>6 DEF ListTake, Expired
      <3> QED
        BY <1>1, <3>1, <3>2
    <2>4. CASE hasCb[t]
      <3>1. Service!Expire(t)
        BY <1>0, <2>1, <2>2, <2>3, <2>4 DEF Service!Expire, Service!SetDeadline, TypeOK
      <3> QED
        BY <3>1 DEF Service!Next
    <2>5. CASE ~hasCb[t]
      <3>1. hasCb' = hasCb
        BY <1>0, <2>1, <2>5 DEF TypeOK
      <3>2. Deadline' = Deadline
        BY <2>1, <2>5, <3>1
      <3> QED
        BY <2>1, <2>2, <2>5, <3>1, <3>2 DEF Service!vars
    <2> QED
      BY <2>4, <2>5
  <1>7. CASE ListRead
    <2>1. Service!Collect
      BY <1>7 DEF ListRead, ReadClock, timerVars, Service!Collect
    <2> QED
      BY <2>1 DEF Service!Next
  <1>8. CASE Tick \/ SetBack
    <2>1. UNCHANGED <<timerVars, listVars>>
      BY <1>8 DEF Tick, SetBack
    <2>2. Service!Time
      BY <1>1, <2>1 DEF Service!Time, timerVars, listVars
    <2> QED
      BY <2>2 DEF Service!Next
  <1>9. ASSUME UNCHANGED <<clockVars, hasCb, next, recurring, cbs>>
        PROVE  UNCHANGED Service!vars
    BY <1>9 DEF clockVars, Service!vars, Reading
  <1>10. (\E t \in Timers : ResetInsert(t)) \/ ListLock \/ ListDone \/ UNCHANGED vars
           => UNCHANGED <<clockVars, hasCb, next, recurring, cbs>>
    BY DEF ResetInsert, ListLock, ListDone, vars, timerVars, listVars
  <1> QED
    BY <1>2, <1>3, <1>4, <1>5, <1>6, <1>7, <1>8, <1>9, <1>10 DEF Next, TimerCall, ListStep

(* The timers keep what TimerService promises: none expires before its     *)
(* deadline unless the clock was set back, a one-shot timer expires once,  *)
(* and one that was cancelled never does.                                  *)
THEOREM TimersRefine == Spec => ImplementsService
  <1>1. IndInv /\ IndInv' /\ [Next]_vars => [Service!Next]_(Service!vars)
    BY StepMaps
  <1> QED
    BY InitMaps, <1>1, Inductive, PTL DEF Spec, ImplementsService, Service!Spec

-----------------------------------------------------------------------------
(* TimerWakeup: what holds of the threads that sleep and wake.            *)
IdleWorkers ==
  {w \in Workers : pc[w] \in {"stopping", "next", "sleep", "expire", "drain",
                             "unidle"}}

AllAsleep == \A w \in Workers : pc[w] = "sleep"
Tickling == \E t \in Threads : pc[t] \in {"tickle", "write"}

Types ==
  /\ clock \in Nat /\ deadlines \subseteq Nat
  /\ tickled \in BOOLEAN
  /\ bytes \in BOOLEAN /\ edge \in BOOLEAN /\ got \subseteq Workers
  /\ pc \in [Threads -> {"run", "tickle", "write", "stopping", "next", "sleep",
                         "expire", "drain", "unidle"}]
  /\ \A o \in Others : pc[o] \in {"run", "tickle", "write"}
  /\ until \in [Workers -> Nat] /\ seen \in [Workers -> Nat]

(* When m_tickled is set and every worker is asleep, the pipe is readable  *)
(* or will be.                                                             *)
TickledWakes == tickled /\ AllAsleep => Readable \/ Tickling

(* NoOversleep, with its exceptions as hypotheses.                         *)
FirstSeen ==
  AllAsleep /\ ~Tickling /\ ~Readable /\ deadlines # {}
    => \E w \in Workers : \A d \in deadlines : until[w] <= d \/ until[w] <= clock

WakeupInv == Types /\ mIdle = Cardinality(IdleWorkers) /\ TickledWakes /\ FirstSeen

-----------------------------------------------------------------------------
(* A set of deadlines that is not empty has a first one, and Earliest is   *)
(* it.                                                                     *)
LEMMA EarliestIsFirst ==
  ASSUME deadlines \subseteq Nat, deadlines # {}
  PROVE  Earliest \in deadlines /\ \A e \in deadlines : Earliest <= e
<1> DEFINE R == OpToRel(<, Nat)
<1>1. \A d, e \in Nat : e < d => <<e, d>> \in R
  BY Zenon DEF OpToRel
<1>2. IsWellFoundedOn(R, Nat)
  BY NatLessThanWellFounded, Zenon
<1> HIDE DEF R
<1>3. PICK d \in deadlines : \A e \in deadlines : ~ (<<e, d>> \in R)
  BY <1>2, WFMin, Zenon
<1>4. ASSUME NEW e \in deadlines PROVE d <= e
  <2>1. d \in Nat /\ e \in Nat /\ ~ (e < d)
    BY <1>1, <1>3
  <2> QED
    BY <2>1
<1> QED
  BY <1>3, <1>4 DEF Earliest

(* m_idleThreadCount counts a finite set of workers.                       *)
LEMMA IdleFinite ==
  IsFiniteSet(IdleWorkers) /\ IsFiniteSet(IdleWorkers')
BY WakeupAssumption, FS_Subset DEF IdleWorkers

(* The initial state satisfies the inductive invariant.                    *)
LEMMA WakeupBegin == WakeupInit => WakeupInv
<1> SUFFICES ASSUME WakeupInit PROVE WakeupInv
  OBVIOUS
<1>1. IdleWorkers = {}
  BY DEF WakeupInit, IdleWorkers, Threads
<1> QED
  BY <1>1, FS_EmptySet DEF WakeupInit, WakeupInv, Types, TickledWakes, FirstSeen,
     Threads

-----------------------------------------------------------------------------
(* The types are kept.                                                     *)
LEMMA WakeupTypesKept == WakeupInv /\ [WakeupNext]_wakeupVars => Types'
<1> SUFFICES ASSUME WakeupInv, [WakeupNext]_wakeupVars PROVE Types'
  OBVIOUS
<1> USE WakeupAssumption DEF WakeupInv, Types, Threads, pipeVars, sleepVars, Goto
<1>1. ASSUME NEW t \in Threads, Tickle(t) PROVE Types'
  BY <1>1 DEF Tickle
<1>2. ASSUME NEW t \in Threads, Write(t) PROVE Types'
  BY <1>2 DEF Write
<1>3. ASSUME NEW t \in Threads, NEW d \in Instants, AddTimer(t, d) PROVE Types'
  <2>1. d \in Nat
    BY DEF Instants
  <2>2. deadlines' \subseteq Nat
    BY <1>3, <2>1 DEF AddTimer
  <2>3. tickled' \in BOOLEAN /\ pc' = [pc EXCEPT ![t] = pc'[t]]
        /\ pc'[t] \in {"run", "tickle"}
    BY <1>3 DEF AddTimer
  <2> QED
    BY <1>3, <2>2, <2>3 DEF AddTimer
<1>4. ASSUME NEW w \in Workers, GoIdle(w) PROVE Types'
  BY <1>4 DEF GoIdle
<1>5. ASSUME NEW w \in Workers, Stopping(w) PROVE Types'
  BY <1>5 DEF Stopping
<1>6. ASSUME NEW w \in Workers, GetNextTimer(w) PROVE Types'
  <2>1. deadlines # {} => Earliest \in Nat
    BY EarliestIsFirst
  <2>2. (IF deadlines = {} THEN clock + MaxTimeout
         ELSE IF Earliest <= clock THEN clock
         ELSE AtMost(Earliest, clock + MaxTimeout)) \in Nat
    BY <2>1 DEF AtMost
  <2> QED
    BY <1>6, <2>2 DEF GetNextTimer
<1>7. ASSUME NEW w \in Workers, Interrupt(w) PROVE Types'
  BY <1>7 DEF Interrupt
<1>8. ASSUME NEW w \in Workers, Wake(w) PROVE Types'
  BY <1>8 DEF Wake
<1>9. ASSUME NEW w \in Workers, Expire(w) PROVE Types'
  <2>1. PICK again \in SUBSET {d \in Instants : d > seen[w]} :
          deadlines' = (deadlines \ {d \in deadlines : d <= seen[w]}) \cup again
    BY <1>9, Zenon DEF Expire
  <2>2. again \subseteq Instants /\ Instants \subseteq Nat
    BY <2>1 DEF Instants
  <2>3. deadlines' \subseteq Nat
    BY <2>1, <2>2
  <2>4. UNCHANGED <<clock, tickled, mIdle, pipeVars, sleepVars>> /\ Goto(w, "drain")
    BY <1>9, Zenon DEF Expire
  <2> QED
    BY <2>3, <2>4
<1>10. ASSUME NEW w \in Workers, Drain(w) PROVE Types'
  BY <1>10 DEF Drain
<1>11. ASSUME NEW w \in Workers, Unidle(w) PROVE Types'
  BY <1>11 DEF Unidle
<1>12. ASSUME NEW d \in Instants, Cancel(d) PROVE Types'
  BY <1>12 DEF Cancel
<1>15. ASSUME NEW d \in Instants, NEW e \in Instants, Refresh(d, e) PROVE Types'
  BY <1>15 DEF Refresh, Instants
<1>13. CASE Pass
  BY <1>13 DEF Pass
<1>14. CASE UNCHANGED wakeupVars
  BY <1>14 DEF wakeupVars
<1> QED
  BY <1>1, <1>2, <1>3, <1>4, <1>5, <1>6, <1>7, <1>8, <1>9, <1>10, <1>11,
     <1>12, <1>13, <1>14, <1>15 DEF WakeupNext

(* The count follows the workers.                                          *)
LEMMA IdleInductive ==
  WakeupInv /\ [WakeupNext]_wakeupVars => (mIdle = Cardinality(IdleWorkers))'
<1> SUFFICES ASSUME WakeupInv, [WakeupNext]_wakeupVars
             PROVE  (mIdle = Cardinality(IdleWorkers))'
  OBVIOUS
<1> USE WakeupAssumption DEF WakeupInv, Types, Threads, Goto, sleepVars
<1>0. ASSUME IdleWorkers' = IdleWorkers, mIdle' = mIdle
      PROVE  (mIdle = Cardinality(IdleWorkers))'
  BY <1>0
<1>1. ASSUME NEW t \in Threads, Tickle(t) PROVE (mIdle = Cardinality(IdleWorkers))'
  <2>1. IdleWorkers' = IdleWorkers /\ mIdle' = mIdle
    BY <1>1 DEF Tickle, IdleWorkers
  <2> QED
    BY <1>0, <2>1
<1>2. ASSUME NEW t \in Threads, Write(t) PROVE (mIdle = Cardinality(IdleWorkers))'
  <2>1. IdleWorkers' = IdleWorkers /\ mIdle' = mIdle
    BY <1>2 DEF Write, IdleWorkers
  <2> QED
    BY <1>0, <2>1
<1>3. ASSUME NEW t \in Threads, NEW d \in Instants, AddTimer(t, d) PROVE (mIdle = Cardinality(IdleWorkers))'
  <2>1. IdleWorkers' = IdleWorkers /\ mIdle' = mIdle
    BY <1>3 DEF AddTimer, Instants, IdleWorkers
  <2> QED
    BY <1>0, <2>1
<1>4. ASSUME NEW w \in Workers, GoIdle(w) PROVE (mIdle = Cardinality(IdleWorkers))'
  <2>1. IdleWorkers' = IdleWorkers \cup {w} /\ w \notin IdleWorkers
    BY <1>4 DEF GoIdle, IdleWorkers
  <2>2. mIdle' = mIdle + 1
    BY <1>4 DEF GoIdle
  <2> QED
    BY <2>1, <2>2, IdleFinite, FS_AddElement
<1>5. ASSUME NEW w \in Workers, Stopping(w) PROVE (mIdle = Cardinality(IdleWorkers))'
  <2>1. IdleWorkers' = IdleWorkers /\ mIdle' = mIdle
    BY <1>5 DEF Stopping, IdleWorkers
  <2> QED
    BY <1>0, <2>1
<1>6. ASSUME NEW w \in Workers, GetNextTimer(w) PROVE (mIdle = Cardinality(IdleWorkers))'
  <2>1. IdleWorkers' = IdleWorkers /\ mIdle' = mIdle
    BY <1>6 DEF GetNextTimer, IdleWorkers
  <2> QED
    BY <1>0, <2>1
<1>7. ASSUME NEW w \in Workers, Interrupt(w) PROVE (mIdle = Cardinality(IdleWorkers))'
  <2>1. IdleWorkers' = IdleWorkers /\ mIdle' = mIdle
    BY <1>7 DEF Interrupt, IdleWorkers
  <2> QED
    BY <1>0, <2>1
<1>8. ASSUME NEW w \in Workers, Wake(w) PROVE (mIdle = Cardinality(IdleWorkers))'
  <2>1. IdleWorkers' = IdleWorkers /\ mIdle' = mIdle
    BY <1>8 DEF Wake, IdleWorkers
  <2> QED
    BY <1>0, <2>1
<1>9. ASSUME NEW w \in Workers, Expire(w) PROVE (mIdle = Cardinality(IdleWorkers))'
  <2>1. IdleWorkers' = IdleWorkers /\ mIdle' = mIdle
    BY <1>9 DEF Expire, IdleWorkers
  <2> QED
    BY <1>0, <2>1
<1>10. ASSUME NEW w \in Workers, Drain(w) PROVE (mIdle = Cardinality(IdleWorkers))'
  <2>1. IdleWorkers' = IdleWorkers /\ mIdle' = mIdle
    BY <1>10 DEF Drain, IdleWorkers
  <2> QED
    BY <1>0, <2>1
<1>11. ASSUME NEW w \in Workers, Unidle(w) PROVE (mIdle = Cardinality(IdleWorkers))'
  <2>1. IdleWorkers' = IdleWorkers \ {w} /\ w \in IdleWorkers
    BY <1>11 DEF Unidle, IdleWorkers
  <2>2. mIdle' = mIdle - 1
    BY <1>11 DEF Unidle
  <2> QED
    BY <2>1, <2>2, IdleFinite, FS_RemoveElement
<1>12. ASSUME NEW d \in Instants, Cancel(d) PROVE (mIdle = Cardinality(IdleWorkers))'
  <2>1. IdleWorkers' = IdleWorkers /\ mIdle' = mIdle
    BY <1>12 DEF Cancel, IdleWorkers
  <2> QED
    BY <1>0, <2>1
<1>15. ASSUME NEW d \in Instants, NEW e \in Instants, Refresh(d, e)
       PROVE (mIdle = Cardinality(IdleWorkers))'
  <2>1. IdleWorkers' = IdleWorkers /\ mIdle' = mIdle
    BY <1>15 DEF Refresh, IdleWorkers
  <2> QED
    BY <1>0, <2>1
<1>13. CASE Pass
  <2>1. IdleWorkers' = IdleWorkers /\ mIdle' = mIdle
    BY <1>13 DEF Pass, IdleWorkers
  <2> QED
    BY <1>0, <2>1
<1>14. CASE UNCHANGED wakeupVars
  <2>1. IdleWorkers' = IdleWorkers /\ mIdle' = mIdle
    BY <1>14 DEF wakeupVars, IdleWorkers
  <2> QED
    BY <1>0, <2>1
<1> QED
  BY <1>1, <1>2, <1>3, <1>4, <1>5, <1>6, <1>7, <1>8, <1>9, <1>10, <1>11,
     <1>12, <1>13, <1>14, <1>15 DEF WakeupNext

-----------------------------------------------------------------------------
(* What m_tickled promises is kept.                                        *)
LEMMA TickledInductive == WakeupInv /\ [WakeupNext]_wakeupVars => TickledWakes'
<1> SUFFICES ASSUME WakeupInv, [WakeupNext]_wakeupVars PROVE TickledWakes'
  OBVIOUS
<1> USE WakeupAssumption DEF WakeupInv, Types, Threads, Goto, pipeVars, sleepVars,
        TickledWakes, AllAsleep, Tickling, Readable
<1>1. ASSUME NEW t \in Threads, Tickle(t) PROVE TickledWakes'
  <2>1. CASE mIdle > 0
    BY <1>1, <2>1 DEF Tickle
  <2>2. CASE ~(mIdle > 0)
    <3>1. IdleWorkers = {}
      BY <2>2, IdleFinite, FS_EmptySet, FS_CardinalityType
    <3> QED
      BY <1>1, <3>1 DEF Tickle, IdleWorkers
  <2> QED
    BY <2>1, <2>2
<1>2. ASSUME NEW t \in Threads, Write(t) PROVE TickledWakes'
  BY <1>2 DEF Write
<1>3. ASSUME NEW t \in Threads, NEW d \in Instants, AddTimer(t, d) PROVE TickledWakes'
  BY <1>3 DEF AddTimer, Instants
<1>4. ASSUME NEW w \in Workers, GoIdle(w) PROVE TickledWakes'
  BY <1>4 DEF GoIdle
<1>5. ASSUME NEW w \in Workers, Stopping(w) PROVE TickledWakes'
  BY <1>5 DEF Stopping
<1>6. ASSUME NEW w \in Workers, GetNextTimer(w) PROVE TickledWakes'
  BY <1>6 DEF GetNextTimer
<1>7. ASSUME NEW w \in Workers, Interrupt(w) PROVE TickledWakes'
  BY <1>7 DEF Interrupt
<1>8. ASSUME NEW w \in Workers, Wake(w) PROVE TickledWakes'
  BY <1>8 DEF Wake
<1>9. ASSUME NEW w \in Workers, Expire(w) PROVE TickledWakes'
  BY <1>9 DEF Expire
<1>10. ASSUME NEW w \in Workers, Drain(w) PROVE TickledWakes'
  BY <1>10 DEF Drain
<1>11. ASSUME NEW w \in Workers, Unidle(w) PROVE TickledWakes'
  BY <1>11 DEF Unidle
<1>12. ASSUME NEW d \in Instants, Cancel(d) PROVE TickledWakes'
  BY <1>12 DEF Cancel
<1>15. ASSUME NEW d \in Instants, NEW e \in Instants, Refresh(d, e) PROVE TickledWakes'
  BY <1>15 DEF Refresh, Instants
<1>13. CASE Pass
  BY <1>13 DEF Pass
<1>14. CASE UNCHANGED wakeupVars
  BY <1>14 DEF wakeupVars
<1> QED
  BY <1>1, <1>2, <1>3, <1>4, <1>5, <1>6, <1>7, <1>8, <1>9, <1>10, <1>11,
     <1>12, <1>13, <1>14, <1>15 DEF WakeupNext

(* No deadline is slept through after a step either.                       *)
LEMMA FirstSeenInductive == WakeupInv /\ [WakeupNext]_wakeupVars => FirstSeen'
<1> SUFFICES ASSUME WakeupInv, [WakeupNext]_wakeupVars PROVE FirstSeen'
  OBVIOUS
<1> USE WakeupAssumption DEF WakeupInv, Types, Threads, Goto, pipeVars, sleepVars,
        FirstSeen, AllAsleep, Tickling, Readable
<1>1. ASSUME NEW t \in Threads, Tickle(t) PROVE FirstSeen'
  <2>1. CASE mIdle > 0
    BY <1>1, <2>1 DEF Tickle
  <2>2. CASE ~(mIdle > 0)
    <3>1. IdleWorkers = {}
      BY <2>2, IdleFinite, FS_EmptySet, FS_CardinalityType
    <3> QED
      BY <1>1, <3>1 DEF Tickle, IdleWorkers
  <2> QED
    BY <2>1, <2>2
<1>2. ASSUME NEW t \in Threads, Write(t) PROVE FirstSeen'
  BY <1>2 DEF Write
<1>3. ASSUME NEW t \in Threads, NEW d \in Instants, AddTimer(t, d) PROVE FirstSeen'
  <2>1. CASE Front(d)
    BY <1>3, <2>1 DEF AddTimer, TickledWakes
  <2>2. CASE ~Front(d)
    <3>1. PICK e \in deadlines : e < d
      BY <2>2 DEF Front, Instants
    <3> QED
      BY <1>3, <2>2, <3>1 DEF AddTimer, Instants
  <2> QED
    BY <2>1, <2>2
<1>4. ASSUME NEW w \in Workers, GoIdle(w) PROVE FirstSeen'
  BY <1>4 DEF GoIdle
<1>5. ASSUME NEW w \in Workers, Stopping(w) PROVE FirstSeen'
  BY <1>5 DEF Stopping
<1>6. ASSUME NEW w \in Workers, GetNextTimer(w) PROVE FirstSeen'
  <2>1. deadlines # {} => Earliest \in deadlines /\ \A d \in deadlines : Earliest <= d
    BY EarliestIsFirst
  <2>2. deadlines # {} => \A d \in deadlines : until'[w] <= d \/ until'[w] <= clock
    <3>1. CASE deadlines # {} /\ Earliest <= clock
      <4>1. until'[w] = clock
        BY <1>6, <3>1 DEF GetNextTimer
      <4> QED
        BY <4>1
    <3>2. CASE deadlines # {} /\ ~(Earliest <= clock)
      <4>1. until'[w] = AtMost(Earliest, clock + MaxTimeout)
        BY <1>6, <3>2 DEF GetNextTimer
      <4>2. Earliest \in Nat
        BY <2>1, <3>2
      <4>3. /\ AtMost(Earliest, clock + MaxTimeout) \in Nat
            /\ AtMost(Earliest, clock + MaxTimeout) <= Earliest
        BY <4>2 DEF AtMost
      <4>4. ASSUME NEW d \in deadlines PROVE until'[w] <= d
        <5>1. d \in Nat /\ Earliest <= d
          BY <2>1
        <5> QED
          BY <4>1, <4>2, <4>3, <5>1
      <4> QED
        BY <4>4
    <3> QED
      BY <3>1, <3>2
  <2> QED
    BY <1>6, <2>2 DEF GetNextTimer
<1>7. ASSUME NEW w \in Workers, Interrupt(w) PROVE FirstSeen'
  BY <1>7 DEF Interrupt
<1>8. ASSUME NEW w \in Workers, Wake(w) PROVE FirstSeen'
  BY <1>8 DEF Wake
<1>9. ASSUME NEW w \in Workers, Expire(w) PROVE FirstSeen'
  BY <1>9 DEF Expire
<1>10. ASSUME NEW w \in Workers, Drain(w) PROVE FirstSeen'
  BY <1>10 DEF Drain
<1>11. ASSUME NEW w \in Workers, Unidle(w) PROVE FirstSeen'
  BY <1>11 DEF Unidle
<1>12. ASSUME NEW d \in Instants, Cancel(d) PROVE FirstSeen'
  BY <1>12 DEF Cancel
<1>15. ASSUME NEW d \in Instants, NEW e \in Instants, Refresh(d, e) PROVE FirstSeen'
  BY <1>15 DEF Refresh, Instants
<1>13. CASE Pass
  BY <1>13 DEF Pass
<1>14. CASE UNCHANGED wakeupVars
  BY <1>14 DEF wakeupVars
<1> QED
  BY <1>1, <1>2, <1>3, <1>4, <1>5, <1>6, <1>7, <1>8, <1>9, <1>10, <1>11,
     <1>12, <1>13, <1>14, <1>15 DEF WakeupNext

LEMMA WakeupInductive == WakeupSpec => []WakeupInv
<1>1. WakeupInv /\ [WakeupNext]_wakeupVars => WakeupInv'
  BY WakeupTypesKept, IdleInductive, TickledInductive, FirstSeenInductive
     DEF WakeupInv
<1> QED
  BY WakeupBegin, <1>1, PTL DEF WakeupSpec

-----------------------------------------------------------------------------
(* The type invariant: m_idleThreadCount is never below zero.              *)
THEOREM WakeupTypesHold == WakeupSpec => []WakeupTypes
<1>1. WakeupInv => WakeupTypes
  BY IdleFinite, FS_CardinalityType DEF WakeupInv, Types, WakeupTypes
<1> QED
  BY WakeupInductive, <1>1, PTL

(* While every worker is in epoll_wait and nobody is about to tickle, the  *)
(* pipe is readable or some worker wakes no later than the first deadline. *)
THEOREM NoOversleepHolds == WakeupSpec => []NoOversleep
<1>1. WakeupInv => NoOversleep
  BY DEF WakeupInv, FirstSeen, NoOversleep, Asleep, AllAsleep, Tickling
<1> QED
  BY WakeupInductive, <1>1, PTL

(* Time passes no deadline of the heap while every worker sleeps and       *)
(* nobody is about to tickle.                                              *)
THEOREM PunctualHolds == WakeupSpec => Punctual
<1>1. ASSUME WakeupInv, [WakeupNext]_wakeupVars, clock' > clock,
             \A w \in Workers : Asleep(w),
             \A t \in Threads : pc[t] \notin {"tickle", "write"}
      PROVE  \A d \in deadlines : clock < d
  <2>1. Pass
    BY <1>1 DEF WakeupInv, Types, WakeupNext, wakeupVars, sleepVars, Tickle, Write, AddTimer, GoIdle,
       Stopping, GetNextTimer, Interrupt, Wake, Expire, Drain, Unidle, Cancel, Refresh
  <2>2. ~Readable /\ \A w \in Workers : clock < until[w]
    BY <1>1, <2>1, WakeupAssumption DEF Pass, Asleep
  <2> QED
    BY <1>1, <2>2 DEF WakeupInv, Types, FirstSeen, AllAsleep, Tickling, Asleep
<1>2. WakeupInv /\ [WakeupNext]_wakeupVars
        => [ clock' > clock /\ (\A w \in Workers : Asleep(w))
               /\ (\A t \in Threads : pc[t] \notin {"tickle", "write"})
             => \A d \in deadlines : clock < d ]_wakeupVars
  BY <1>1
<1> QED
  BY WakeupInductive, <1>2, PTL DEF WakeupSpec, Punctual
=============================================================================
