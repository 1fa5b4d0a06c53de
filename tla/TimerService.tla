---------------------------- MODULE TimerService ----------------------------
(***************************************************************************)
(* What the timers of corlib promise: a timer that was added expires when  *)
(* its deadline has passed and not before, a one-shot timer expires once,  *)
(* and a timer that was cancelled never does.  There is no heap here and   *)
(* no mutex; TimerManager implements this specification.                   *)
(***************************************************************************)
EXTENDS Naturals

CONSTANT Timers

VARIABLES
  clock,     \* the time
  adjusted,  \* the system clock has been set back
  armed,     \* timers that are to expire
  recurring, \* those created with recurring = true
  deadline,  \* when; of no interest for other timers
  listed     \* timers whose callbacks the current call has collected

vars == <<clock, adjusted, armed, recurring, deadline, listed>>

Init ==
  /\ armed = {} /\ recurring = {} /\ listed = {} /\ adjusted = FALSE
  /\ clock \in Nat /\ deadline \in [Timers -> Nat]

SetDeadline(t) ==
  \A u \in Timers \ {t} : deadline'[u] = deadline[u]

Add(t) ==
  /\ t \notin armed /\ armed' = armed \cup {t}
  /\ recurring' \in {recurring, recurring \cup {t}}
  /\ SetDeadline(t)
  /\ UNCHANGED <<adjusted, listed>>

Cancel(t) ==
  /\ t \in armed /\ armed' = armed \ {t}
  /\ SetDeadline(t)
  /\ UNCHANGED <<clock, adjusted, recurring, listed>>

\* refresh() and reset().
Postpone(t) ==
  /\ t \in armed /\ SetDeadline(t)
  /\ UNCHANGED <<adjusted, armed, recurring, listed>>

Expire(t) ==
  /\ t \in armed
  /\ deadline[t] <= clock \/ adjusted
  /\ listed' = listed \cup {t}
  /\ armed' = IF t \in recurring THEN armed ELSE armed \ {t}
  /\ SetDeadline(t)
  /\ UNCHANGED <<clock, adjusted, recurring>>

\* A new call collects from nothing.
Collect == listed' = {} /\ UNCHANGED <<adjusted, armed, recurring, deadline>>

Time ==
  /\ clock' >= clock \/ adjusted'
  /\ adjusted => adjusted'
  /\ UNCHANGED <<armed, recurring, deadline, listed>>

Next ==
  \/ \E t \in Timers : Add(t) \/ Cancel(t) \/ Postpone(t) \/ Expire(t)
  \/ Collect \/ Time

Spec == Init /\ [][Next]_vars
=============================================================================
