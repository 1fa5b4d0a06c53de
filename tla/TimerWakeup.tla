----------------------------- MODULE TimerWakeup -----------------------------
(***************************************************************************)
(* How the first deadline of the heap reaches epoll_wait: an idle worker   *)
(* sleeps until the deadline getNextTimer() showed it, at most MAX_TIMEOUT *)
(* (IOManager::idle), and a thread that inserts an earlier timer wakes a   *)
(* worker through the tickle pipe, once until some thread has called       *)
(* getNextTimer() again (TimerManager::m_tickled).                         *)
(*                                                                         *)
(* The heap is the set of its deadlines (TimerManager has the timers) and  *)
(* tasks are of no interest: a worker that is not idle may add a timer or  *)
(* become idle.  Every access to the heap's mutex, to m_idleThreadCount    *)
(* and to the pipe is a step.  Of the insertions only those of addTimer()  *)
(* look at m_tickled and tickle: refresh() and listExpiredCb, which puts   *)
(* recurring timers back, insert in silence.                               *)
(***************************************************************************)
EXTENDS Naturals, FiniteSets

CONSTANTS
  Workers,     \* threads that execute Scheduler::run
  Others,      \* further threads that add timers
  MaxTimeout,  \* MAX_TIMEOUT
  MaxTime      \* bound: the last instant

Threads == Workers \cup Others

ASSUME WakeupAssumption ==
  /\ IsFiniteSet(Workers) /\ Workers # {} /\ Workers \cap Others = {}
  /\ MaxTimeout \in Nat \ {0} /\ MaxTime \in Nat

VARIABLES
  clock,     \* the time
  deadlines, \* those in m_timers
  tickled,   \* m_tickled
  mIdle,     \* m_idleThreadCount
  bytes,     \* the tickle pipe holds unread bytes
  edge,      \* the tickle pipe is on the ready list of epoll
  got,       \* workers that epoll_wait has handed the tickle pipe to
  pc,        \* the next step of each thread
  until,     \* when epoll_wait of a sleeping worker times out
  seen       \* the clock as listExpiredCb of each worker has read it

pipeVars == <<bytes, edge, got>>
sleepVars == <<until, seen>>
wakeupVars == <<clock, deadlines, tickled, mIdle, pipeVars, pc, sleepVars>>

Instants == 0..MaxTime
Earliest == CHOOSE d \in deadlines : \A e \in deadlines : d <= e
AtMost(a, b) == IF a <= b THEN a ELSE b
Readable == edge /\ bytes

Goto(t, l) == pc' = [pc EXCEPT ![t] = l]

-----------------------------------------------------------------------------
(* addTimer: insert under the mutex; the first timer of the heap tickles   *)
(* unless one has since the last getNextTimer().  The deadline was         *)
(* computed before, by the constructor or by reset(), and may be over.     *)
Front(d) == \A e \in deadlines : d <= e

\* Mutant: only a timer that finds the heap empty tickles.
AddFirstOnly(t, d) ==
  /\ pc[t] = "run"
  /\ deadlines' = deadlines \cup {d}
  /\ IF deadlines = {} /\ ~tickled
     THEN tickled' = TRUE /\ Goto(t, "tickle")
     ELSE UNCHANGED <<tickled, pc>>
  /\ UNCHANGED <<clock, mIdle, pipeVars, sleepVars>>

AddTimer(t, d) ==
  /\ pc[t] = "run"
  /\ deadlines' = deadlines \cup {d}
  /\ IF Front(d) /\ ~tickled
     THEN tickled' = TRUE /\ Goto(t, "tickle")
     ELSE UNCHANGED <<tickled, pc>>
  /\ UNCHANGED <<clock, mIdle, pipeVars, sleepVars>>

(* onTimerInsertedAtFront -> tickle: write to the pipe if a thread is idle. *)
Tickle(t) ==
  /\ pc[t] = "tickle"
  /\ Goto(t, IF mIdle > 0 THEN "write" ELSE "run")
  /\ UNCHANGED <<clock, deadlines, tickled, mIdle, pipeVars, sleepVars>>

Write(t) ==
  /\ pc[t] = "write"
  /\ bytes' = TRUE /\ edge' = TRUE
  /\ Goto(t, "run")
  /\ UNCHANGED <<clock, deadlines, tickled, mIdle, got, sleepVars>>

(* Timer::cancel, or another owner's reset.                                *)
Cancel(d) ==
  /\ d \in deadlines /\ deadlines' = deadlines \ {d}
  /\ UNCHANGED <<clock, tickled, mIdle, pipeVars, pc, sleepVars>>

(* Timer::refresh moves a deadline to a period from now, which is later.   *)
Refresh(d, e) ==
  /\ d \in deadlines /\ e >= d /\ e >= clock
  /\ deadlines' = (deadlines \ {d}) \cup {e}
  /\ UNCHANGED <<clock, tickled, mIdle, pipeVars, pc, sleepVars>>

-----------------------------------------------------------------------------
(* run(): ++m_idleThreadCount, then the idle fiber.                        *)
GoIdle(w) ==
  /\ pc[w] = "run"
  /\ mIdle' = mIdle + 1 /\ Goto(w, "stopping")
  /\ UNCHANGED <<clock, deadlines, tickled, pipeVars, sleepVars>>

(* stopping() calls getNextTimer() for the first time; it is false here.   *)
Stopping(w) ==
  /\ pc[w] = "stopping"
  /\ tickled' = FALSE /\ Goto(w, "next")
  /\ UNCHANGED <<clock, deadlines, mIdle, pipeVars, sleepVars>>

(* getNextTimer() and the timeout computed from it; then epoll_wait.       *)
GetNextTimer(w) ==
  /\ pc[w] = "next"
  /\ tickled' = FALSE
  /\ until' = [until EXCEPT ![w] =
                 IF deadlines = {} THEN clock + MaxTimeout
                 ELSE IF Earliest <= clock THEN clock
                 ELSE AtMost(Earliest, clock + MaxTimeout)]
  /\ Goto(w, "sleep")
  /\ UNCHANGED <<clock, deadlines, mIdle, pipeVars, seen>>

(* epoll_wait is interrupted: EINTR, ask for the timeout again.            *)
Interrupt(w) ==
  /\ pc[w] = "sleep" /\ Goto(w, "next")
  /\ UNCHANGED <<clock, deadlines, tickled, mIdle, pipeVars, sleepVars>>

(* epoll_wait returns: with the pipe, which is edge triggered and wakes    *)
(* one worker, or with nothing at its timeout.  listExpiredCb reads the    *)
(* clock, and then waits for the mutex.                                    *)
Wake(w) ==
  /\ pc[w] = "sleep"
  /\ Readable \/ until[w] <= clock
  /\ got' = IF Readable THEN got \cup {w} ELSE got
  /\ edge' = FALSE
  /\ seen' = [seen EXCEPT ![w] = clock]
  /\ Goto(w, "expire")
  /\ UNCHANGED <<clock, deadlines, tickled, mIdle, bytes, until>>

(* listExpiredCb takes what is due out of the heap and puts the recurring  *)
(* timers among it back, a period after its reading of the clock.  Nobody  *)
(* is tickled for them.  (For a period of 0 see TimerManager.)             *)
Expire(w) ==
  /\ pc[w] = "expire"
  /\ LET due == {d \in deadlines : d <= seen[w]} IN
     \E again \in SUBSET {d \in Instants : d > seen[w]} :
       /\ Cardinality(again) <= Cardinality(due)
       /\ deadlines' = (deadlines \ due) \cup again
  /\ Goto(w, "drain")
  /\ UNCHANGED <<clock, tickled, mIdle, pipeVars, sleepVars>>

(* Empty the tickle pipe if it was returned; then the idle fiber yields.   *)
Drain(w) ==
  /\ pc[w] = "drain"
  /\ bytes' = (bytes /\ w \notin got)
  /\ got' = got \ {w}
  /\ Goto(w, "unidle")
  /\ UNCHANGED <<clock, deadlines, tickled, mIdle, edge, sleepVars>>

Unidle(w) ==
  /\ pc[w] = "unidle"
  /\ mIdle' = mIdle - 1 /\ Goto(w, "run")
  /\ UNCHANGED <<clock, deadlines, tickled, pipeVars, sleepVars>>

(* Time passes; a worker whose epoll_wait has to return returns in time,   *)
(* the delay of the operating system is not what is in question here.      *)
Pass ==
  /\ clock < MaxTime /\ clock' = clock + 1
  /\ \A w \in Workers : pc[w] = "sleep" => ~Readable /\ clock < until[w]
  /\ UNCHANGED <<deadlines, tickled, mIdle, pipeVars, pc, sleepVars>>

-----------------------------------------------------------------------------
WakeupInit ==
  /\ clock = 0 /\ deadlines = {} /\ tickled = FALSE /\ mIdle = 0
  /\ bytes = FALSE /\ edge = FALSE /\ got = {}
  /\ pc = [t \in Threads |-> "run"]
  /\ until = [w \in Workers |-> 0] /\ seen = [w \in Workers |-> 0]

WakeupNext ==
  \/ \E t \in Threads : Tickle(t) \/ Write(t)
                        \/ \E d \in Instants : AddTimer(t, d)
  \/ \E w \in Workers : \/ GoIdle(w) \/ Stopping(w) \/ GetNextTimer(w)
                        \/ Interrupt(w) \/ Wake(w) \/ Expire(w) \/ Drain(w)
                        \/ Unidle(w)
  \/ \E d \in Instants : Cancel(d) \/ \E e \in Instants : Refresh(d, e)
  \/ Pass

WakeupSpec == WakeupInit /\ [][WakeupNext]_wakeupVars

-----------------------------------------------------------------------------
(* The types; a thread that is no worker never enters idle(), and          *)
(* m_idleThreadCount does not fall below zero.                             *)
WakeupTypes ==
  /\ clock \in Nat /\ deadlines \subseteq Nat
  /\ tickled \in BOOLEAN /\ mIdle \in Nat
  /\ bytes \in BOOLEAN /\ edge \in BOOLEAN /\ got \subseteq Workers
  /\ pc \in [Threads -> {"run", "tickle", "write", "stopping", "next", "sleep",
                         "expire", "drain", "unidle"}]
  /\ \A o \in Others : pc[o] \in {"run", "tickle", "write"}
  /\ until \in [Workers -> Nat] /\ seen \in [Workers -> Nat]

Asleep(w) == pc[w] = "sleep"

(* No deadline is slept through: when every worker is in epoll_wait and no *)
(* thread is on its way to tickle, the pipe is readable or some worker's   *)
(* timeout comes no later than the first deadline (m_tickled, tickle()).   *)
NoOversleep ==
  \/ \E w \in Workers : ~Asleep(w)
  \/ \E t \in Threads : pc[t] \in {"tickle", "write"}
  \/ deadlines = {} \/ Readable
  \/ \E w \in Workers : \A d \in deadlines : until[w] <= d \/ until[w] <= clock

(* Hence a timer that is in the heap has not expired for longer than the   *)
(* workers are busy: time passes its deadline only when one is awake.      *)
Punctual ==
  [][ clock' > clock /\ (\A w \in Workers : Asleep(w))
        /\ (\A t \in Threads : pc[t] \notin {"tickle", "write"})
      => \A d \in deadlines : clock < d ]_wakeupVars
=============================================================================
