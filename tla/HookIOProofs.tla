---------------------------- MODULE HookIOProofs ----------------------------
(***************************************************************************)
(* Proofs about HookIO, for any fibers, arrivals and files: the type       *)
(* invariant, that a fiber that waits is woken once, that a call times out *)
(* on its own timer only, and that a wait has what it needs to end.        *)
(***************************************************************************)
EXTENDS HookIO, TLAPS

(* A timer that has expired is remembered in late before its callback      *)
(* marks the call, and only a fiber with a timeout comes to arm one.       *)
Marked ==
  /\ cancelled \subseteq late
  /\ \A f \in Fibers : /\ fired[f] > 0 => f \in late
                       /\ pc[f] = "timer" => f \in Timed

(* close() leaves no fiber behind but in its own gap: whoever sleeps is in *)
(* the task queue, or registered on a descriptor that is open and that     *)
(* epoll watches, or it registered between cancelAll and close_f of some   *)
(* close().  So a descriptor that is closed, or has been and is another    *)
(* file now, has no other waiter of the old one.                           *)
ClosedWakes ==
  \A f \in Fibers :
    pc[f] = "asleep" => f \in queue \/ (reg = f /\ ((open /\ watched) \/ slipped))

(* A registration that close() did not overtake is watched.                *)
Kept == reg # NoFiber /\ ~slipped => watched /\ closing = "no"

(* A fiber with a timeout never sleeps without one: its timer is in the    *)
(* heap, a callback of it has yet to run, or one has marked the call,      *)
(* which then ends with ETIMEDOUT whatever wakes it.                       *)
TimeoutKept ==
  \A f \in Timed :
    pc[f] \in {"add", "asleep"} => f \in armed \/ fired[f] > 0 \/ f \in cancelled

IndInv == /\ TypeOK /\ data <= arrivals /\ Marked /\ OneWake /\ OwnTimeout
          /\ ClosedWakes /\ Kept /\ TimeoutKept

-----------------------------------------------------------------------------
(* The initial state satisfies the inductive invariant.                    *)
LEMMA InitInductive == Init => IndInv
<1> SUFFICES ASSUME Init PROVE IndInv
  OBVIOUS
<1>1. TypeOK /\ data <= arrivals
  <2>1. watched \in BOOLEAN /\ slipped \in BOOLEAN /\ open \in BOOLEAN
    BY DEF Init
  <2> QED
    BY <2>1, HookAssumption DEF Init, TypeOK
<1>2. Marked /\ OneWake /\ OwnTimeout
  BY HookAssumption DEF Init, Marked, OneWake, OwnTimeout
<1>3. ClosedWakes /\ Kept /\ TimeoutKept
  BY HookAssumption DEF Init, ClosedWakes, Kept, TimeoutKept
<1> QED
  BY <1>1, <1>2, <1>3 DEF IndInv

(* Every step keeps it: one step of the proof per action.                  *)
LEMMA NextInductive == IndInv /\ [Next]_vars => IndInv'
<1> SUFFICES ASSUME IndInv, [Next]_vars PROVE IndInv'
  OBVIOUS
<1> USE HookAssumption DEF IndInv, TypeOK, Marked, OneWake, OwnTimeout,
        ClosedWakes, Kept, TimeoutKept, waitVars, wakeVars, fileVars
<1>1. ASSUME NEW f \in Fibers, Enter(f) PROVE IndInv'
  BY <1>1 DEF Enter, Goto
<1>2. ASSUME NEW f \in Fibers, Call(f) PROVE IndInv'
  BY <1>2 DEF Call, Return, Goto
<1>15. ASSUME NEW f \in Fibers, Direct(f) PROVE IndInv'
  BY <1>15 DEF Direct, Return, Goto
<1>3. ASSUME NEW f \in Fibers, AddTimer(f) PROVE IndInv'
  BY <1>3 DEF AddTimer, Goto
<1>4. ASSUME NEW f \in Fibers, AddEvent(f) PROVE IndInv'
  <2>5. watched' \in BOOLEAN /\ slipped' \in BOOLEAN
    BY <1>4 DEF AddEvent, Return, Goto
  <2>1. TypeOK' /\ (data <= arrivals)'
    BY <1>4, <2>5 DEF AddEvent, Return, Goto
  <2>2. Marked' /\ OwnTimeout' /\ TimeoutKept'
    BY <1>4 DEF AddEvent, Return, Goto
  <2>3. OneWake'
    BY <1>4 DEF AddEvent, Return, Goto
  <2>4. ClosedWakes' /\ Kept'
    BY <1>4 DEF AddEvent, Return, Goto
  <2> QED
    BY <2>1, <2>2, <2>3, <2>4
<1>5. ASSUME NEW f \in Fibers, Resume(f) PROVE IndInv'
  BY <1>5 DEF Resume, Goto
<1>6. ASSUME NEW f \in Fibers, Resumed(f) PROVE IndInv'
  BY <1>6 DEF Resumed, Return, Goto
<1>7. ASSUME NEW f \in Fibers, Expire(f) PROVE IndInv'
  BY <1>7 DEF Expire
<1>8. ASSUME NEW f \in Fibers, Callback(f) PROVE IndInv'
  BY <1>8 DEF Callback
<1>9. ASSUME NEW f \in Fibers, CallbackCancel(f) PROVE IndInv'
  <2>5. watched' \in BOOLEAN /\ slipped' \in BOOLEAN
    BY <1>9 DEF CallbackCancel, Trigger
  <2>1. TypeOK' /\ (data <= arrivals)'
    BY <1>9, <2>5 DEF CallbackCancel, Trigger
  <2>2. Marked' /\ OwnTimeout' /\ TimeoutKept'
    BY <1>9 DEF CallbackCancel, Trigger
  <2>3. OneWake'
    BY <1>9 DEF CallbackCancel, Trigger
  <2>4. ClosedWakes' /\ Kept'
    BY <1>9 DEF CallbackCancel, Trigger
  <2> QED
    BY <2>1, <2>2, <2>3, <2>4
<1>10. CASE Event
  <2>5. watched' \in BOOLEAN /\ slipped' \in BOOLEAN
    BY <1>10 DEF Event, Trigger
  <2>1. TypeOK' /\ (data <= arrivals)'
    BY <1>10, <2>5 DEF Event, Trigger
  <2>2. Marked' /\ OwnTimeout' /\ TimeoutKept'
    BY <1>10 DEF Event, Trigger
  <2>3. OneWake'
    BY <1>10 DEF Event, Trigger
  <2>4. ClosedWakes' /\ Kept'
    BY <1>10 DEF Event, Trigger
  <2> QED
    BY <2>1, <2>2, <2>3, <2>4
<1>11. CASE Arrive
  BY <1>11 DEF Arrive
<1>12. CASE Close
  <2>1. data' \in 0 .. MaxData /\ data' <= arrivals'
    BY <1>12 DEF Close
  <2> QED
    BY <1>12, <2>1 DEF Close
<1>16. CASE CancelAll
  <2>5. watched' \in BOOLEAN /\ slipped' \in BOOLEAN
    BY <1>16 DEF CancelAll, Trigger
  <2>1. TypeOK' /\ (data <= arrivals)'
    BY <1>16, <2>5 DEF CancelAll, Trigger
  <2>2. Marked' /\ OwnTimeout' /\ TimeoutKept'
    BY <1>16 DEF CancelAll, Trigger
  <2>3. OneWake'
    BY <1>16 DEF CancelAll, Trigger
  <2>4. ClosedWakes' /\ Kept'
    BY <1>16 DEF CancelAll, Trigger
  <2> QED
    BY <2>1, <2>2, <2>3, <2>4
<1>17. CASE Del
  BY <1>17 DEF Del
<1>13. CASE Reuse
  BY <1>13 DEF Reuse
<1>14. CASE UNCHANGED vars
  BY <1>14 DEF vars
<1> QED
  BY <1>1, <1>2, <1>3, <1>4, <1>5, <1>6, <1>7, <1>8, <1>9, <1>10, <1>11,
     <1>12, <1>13, <1>14, <1>15, <1>16, <1>17 DEF Next, Step

LEMMA Inductive == Spec => []IndInv
BY InitInductive, NextInductive, PTL DEF Spec

-----------------------------------------------------------------------------
(* The type invariant: a result exactly when the call has returned, and no *)
(* timer armed outside of the wait.                                        *)
THEOREM HookTypesHold == Spec => []TypeOK
<1>1. IndInv => TypeOK
  BY DEF IndInv
<1> QED
  BY Inductive, <1>1, PTL

(* A fiber that has yielded in do_io is registered or in the task queue,   *)
(* never both and never neither, and no other fiber is: the event, the     *)
(* callbacks and close() wake it once.                                     *)
THEOREM WokenOnce == Spec => []OneWake
<1>1. IndInv => OneWake
  BY DEF IndInv
<1> QED
  BY Inductive, <1>1, PTL

(* A call that returns ETIMEDOUT let one of its own timers expire.         *)
THEOREM OwnTimeoutHolds == Spec => []OwnTimeout
<1>1. IndInv => OwnTimeout
  BY DEF IndInv
<1> QED
  BY Inductive, <1>1, PTL

(* close() leaves no fiber asleep on what it has closed, except one that   *)
(* registered inside close() itself.                                       *)
THEOREM ClosedWakesHolds == Spec => []ClosedWakes
<1>1. IndInv => ClosedWakes
  BY DEF IndInv
<1> QED
  BY Inductive, <1>1, PTL

(* No interleaving of callbacks, wake-ups and close() takes the timeout    *)
(* from a fiber that sleeps: what TimeoutWakes leaves out is a callback    *)
(* that ran too early or that finds an orphan, never a timer that is lost. *)
THEOREM TimeoutKeptHolds == Spec => []TimeoutKept
<1>1. IndInv => TimeoutKept
  BY DEF IndInv
<1> QED
  BY Inductive, <1>1, PTL
=============================================================================
