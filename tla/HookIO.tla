------------------------------- MODULE HookIO -------------------------------
(***************************************************************************)
(* The hooked socket calls of corlib (do_io in hook.cpp): fibers that read *)
(* one descriptor in blocking style.  A call that finds nothing arms a     *)
(* timer, registers the fiber with IOManager, yields, and tries again when *)
(* the fiber is resumed; the event, the timer's callback, which goes       *)
(* through the task queue, and close() of another fiber, which takes three *)
(* steps, race to wake it.                                                 *)
(*                                                                         *)
(* The table of events is reduced to the fiber registered for READ on this *)
(* descriptor (FdEvents has the table), the scheduler to the set of fibers *)
(* it will resume (IOScheduler).  One call per fiber; data are counted.    *)
(***************************************************************************)
EXTENDS Naturals, FiniteSets

CONSTANTS
  Fibers, NoFiber,
  Timed,          \* fibers whose descriptor has SO_RCVTIMEO set
  MaxData,        \* bound: how often data arrive
  MaxFiles        \* bound: files the descriptor number stands for in turn

ASSUME HookAssumption ==
  /\ NoFiber \notin Fibers /\ Timed \subseteq Fibers
  /\ MaxData \in Nat /\ MaxFiles \in Nat \ {0}

VARIABLES
  pc,         \* the next step of do_io in each fiber
  armed,      \* fibers whose timer is in the heap
  fired,      \* callbacks of expired timers, collected and not yet run
  cancelling, \* fibers whose callback has yet to call cancelEvent
  cancelled,  \* fibers whose timer_info::cancelled is ETIMEDOUT
  late,       \* fibers one of whose timers has expired (history)
  reg,        \* the fiber registered for READ in the table
  watched,    \* epoll has the descriptor for that fiber
  slipped,    \* that fiber registered while close() was under way (history)
  queue,      \* fibers handed to scheduleLock
  result,     \* what the call returned; "error" is any -1 but a timeout
  file,       \* the file the descriptor stands for
  open,       \* the descriptor is open
  closing,    \* how far another fiber's close() has come
  data,       \* what can be read
  arrivals    \* how often data have arrived

waitVars == <<armed, fired, cancelling, cancelled, late>>
wakeVars == <<reg, watched, slipped, queue>>
fileVars == <<file, open, closing, data, arrivals>>
vars == <<pc, result, waitVars, wakeVars, fileVars>>

Goto(f, l) == pc' = [pc EXCEPT ![f] = l]

(* The call returns r; its timer_info dies and with it what the callbacks  *)
(* that are still queued could do (weak_ptr::lock, OnTimer).               *)
Return(f, r) ==
  /\ Goto(f, "done")
  /\ result' = [result EXCEPT ![f] = r]
  /\ fired' = [fired EXCEPT ![f] = 0]
  /\ cancelled' = cancelled \ {f}

(* EPOLL_CTL_DEL and triggerEvent: the registered fiber goes to the        *)
(* scheduler.  When epoll has forgotten the descriptor, epoll_ctl fails    *)
(* and the fiber stays where it is.                                        *)
Trigger ==
  IF reg # NoFiber /\ watched
  THEN /\ queue' = queue \cup {reg} /\ reg' = NoFiber
       /\ watched' = FALSE /\ slipped' = FALSE
  ELSE UNCHANGED wakeVars

\* FdManager has an FdCtx for the descriptor.
HasCtx == open /\ closing # "deleted"

-----------------------------------------------------------------------------
(* do_io.                                                                  *)

(* There is no FdCtx: the system call is made directly.                    *)
Direct(f) ==
  /\ pc[f] = "enter" /\ ~HasCtx
  /\ IF data > 0 THEN data' = data - 1 /\ Return(f, "data")
     ELSE Return(f, "error") /\ UNCHANGED data
  /\ UNCHANGED <<armed, cancelling, late, wakeVars, file, open, closing,
                 arrivals>>

(* The FdCtx is looked up, is a socket and not closed.                     *)
Enter(f) ==
  /\ pc[f] = "enter" /\ HasCtx
  /\ Goto(f, "call")
  /\ UNCHANGED <<result, waitVars, wakeVars, fileVars>>

(* The system call itself, EINTR and all.                                  *)
Call(f) ==
  /\ pc[f] = "call"
  /\ \/ ~open /\ Return(f, "error") /\ UNCHANGED data
     \/ /\ open /\ data > 0 /\ data' = data - 1
        /\ Return(f, "data")
     \/ /\ open /\ data = 0 /\ UNCHANGED <<data, fired, cancelled, result>>
        /\ Goto(f, IF f \in Timed THEN "timer" ELSE "add")
  /\ UNCHANGED <<armed, cancelling, late, wakeVars, file, open, closing,
                 arrivals>>

AddTimer(f) ==
  /\ pc[f] = "timer"
  /\ armed' = armed \cup {f}
  /\ Goto(f, "add")
  /\ UNCHANGED <<result, fired, cancelling, cancelled, late, wakeVars,
                 fileVars>>

(* addEvent and yield; it fails when another fiber is registered or the    *)
(* descriptor is closed.                                                   *)
AddEvent(f) ==
  /\ pc[f] = "add"
  /\ IF reg = NoFiber /\ open
     THEN /\ reg' = f /\ watched' = TRUE /\ slipped' = (closing # "no")
          /\ Goto(f, "asleep")
          /\ UNCHANGED <<result, armed, fired, cancelled>>
     ELSE /\ armed' = armed \ {f} /\ Return(f, "error")
          /\ UNCHANGED <<reg, watched, slipped>>
  /\ UNCHANGED <<cancelling, late, queue, fileVars>>

Resume(f) ==
  /\ pc[f] = "asleep" /\ f \in queue
  /\ queue' = queue \ {f} /\ Goto(f, "resumed")
  /\ UNCHANGED <<result, waitVars, reg, watched, slipped, fileVars>>

(* Cancel the timer; ETIMEDOUT, or try again.                              *)
Resumed(f) ==
  /\ pc[f] = "resumed"
  /\ armed' = armed \ {f}
  /\ IF f \in cancelled THEN Return(f, "ETIMEDOUT")
     ELSE Goto(f, "call") /\ UNCHANGED <<result, fired, cancelled>>
  /\ UNCHANGED <<cancelling, late, wakeVars, fileVars>>

-----------------------------------------------------------------------------
(* What happens to a fiber in do_io.                                       *)

(* The deadline passes and listExpiredCb collects the callback.            *)
Expire(f) ==
  /\ f \in armed
  /\ armed' = armed \ {f} /\ late' = late \cup {f}
  /\ fired' = [fired EXCEPT ![f] = @ + 1]
  /\ UNCHANGED <<pc, result, cancelling, cancelled, wakeVars,
                 fileVars>>

\* Mutant: the callback marks the fiber it finds registered.
CallbackMarksWaiter(f) ==
  /\ fired[f] > 0
  /\ fired' = [fired EXCEPT ![f] = @ - 1]
  /\ IF f \in cancelled THEN UNCHANGED <<cancelled, cancelling>>
     ELSE /\ cancelled' = cancelled \cup ({f, reg} \cap Fibers)
          /\ cancelling' = cancelling \cup {f}
  /\ UNCHANGED <<pc, result, armed, late, wakeVars, fileVars>>

(* The timer's callback marks the call, unless it is marked already; a     *)
(* call that has returned cannot be marked (Return).                       *)
Callback(f) ==
  /\ fired[f] > 0
  /\ fired' = [fired EXCEPT ![f] = @ - 1]
  /\ IF f \in cancelled THEN UNCHANGED <<cancelled, cancelling>>
     ELSE cancelled' = cancelled \cup {f} /\ cancelling' = cancelling \cup {f}
  /\ UNCHANGED <<pc, result, armed, late, wakeVars, fileVars>>

\* Mutant: cancelEvent() schedules the fiber and leaves it registered.
CancelKeeps(f) ==
  /\ f \in cancelling /\ cancelling' = cancelling \ {f}
  /\ queue' = IF reg # NoFiber /\ watched THEN queue \cup {reg} ELSE queue
  /\ UNCHANGED <<pc, result, armed, fired, cancelled, late, reg, watched,
                 slipped, fileVars>>

\* Mutant: delEvent() is called, which schedules nobody.
CancelDeletes(f) ==
  /\ f \in cancelling /\ cancelling' = cancelling \ {f}
  /\ IF watched THEN reg' = NoFiber /\ watched' = FALSE /\ slipped' = FALSE
     ELSE UNCHANGED <<reg, watched, slipped>>
  /\ UNCHANGED <<pc, result, armed, fired, cancelled, late, queue,
                 fileVars>>

(* ... and calls cancelEvent(fd, event), which wakes whatever fiber is     *)
(* registered by then.                                                     *)
CallbackCancel(f) ==
  /\ f \in cancelling /\ cancelling' = cancelling \ {f}
  /\ Trigger
  /\ UNCHANGED <<pc, result, armed, fired, cancelled, late,
                 fileVars>>

(* idle(): the descriptor is readable.                                     *)
Event ==
  /\ watched /\ data > 0
  /\ Trigger
  /\ UNCHANGED <<pc, result, waitVars, fileVars>>

Arrive ==
  /\ open /\ arrivals < MaxData
  /\ arrivals' = arrivals + 1 /\ data' = data + 1
  /\ UNCHANGED <<pc, result, waitVars, wakeVars, file, open,
                 closing>>

(* Hooked close() of another fiber: cancelAll wakes who is registered, ... *)
CancelAll ==
  /\ open /\ closing = "no" /\ closing' = "cancelled"
  /\ Trigger
  /\ UNCHANGED <<pc, result, waitVars, file, open, data, arrivals>>

(* ... del drops the FdCtx, and ...                                        *)
Del ==
  /\ closing = "cancelled" /\ closing' = "deleted"
  /\ UNCHANGED <<pc, result, waitVars, wakeVars, file, open, data, arrivals>>

(* ... the system call, with which epoll forgets the descriptor; the table *)
(* keeps whoever registered in the meantime.                               *)
Close ==
  /\ closing = "deleted" /\ closing' = "no"
  /\ open' = FALSE /\ data' = 0 /\ watched' = FALSE
  /\ UNCHANGED <<pc, result, waitVars, reg, slipped, queue, file, arrivals>>

(* The number is given to the next socket the process opens.               *)
Reuse ==
  /\ ~open /\ file < MaxFiles
  /\ open' = TRUE /\ file' = file + 1
  /\ UNCHANGED <<pc, result, waitVars, wakeVars, closing, data, arrivals>>

-----------------------------------------------------------------------------
Init ==
  /\ pc = [f \in Fibers |-> "enter"] /\ result = [f \in Fibers |-> "none"]
  /\ armed = {} /\ fired = [f \in Fibers |-> 0] /\ cancelling = {}
  /\ cancelled = {} /\ late = {}
  /\ reg = NoFiber /\ watched = FALSE /\ slipped = FALSE /\ queue = {}
  /\ file = 1 /\ open = TRUE /\ closing = "no" /\ data = 0 /\ arrivals = 0

Step(f) == \/ Direct(f) \/ Enter(f) \/ Call(f) \/ AddTimer(f) \/ AddEvent(f)
           \/ Resume(f) \/ Resumed(f)

Next ==
  \/ \E f \in Fibers :
       Step(f) \/ Expire(f) \/ Callback(f) \/ CallbackCancel(f)
  \/ Event \/ Arrive \/ CancelAll \/ Del \/ Close \/ Reuse

Spec == Init /\ [][Next]_vars
(* The scheduler resumes fibers and runs callbacks, deadlines pass, epoll  *)
(* reports what is readable (IOScheduler, FdEvents).  Nobody has to send   *)
(* data or to close, not even to end a close().                            *)
FairSpec ==
  /\ Spec /\ WF_vars(Event)
  /\ \A f \in Fibers :
       /\ WF_vars(Step(f)) /\ WF_vars(Expire(f))
       /\ WF_vars(Callback(f)) /\ WF_vars(CallbackCancel(f))

-----------------------------------------------------------------------------
(* Properties.                                                             *)

(* The shape of the state: a result is there exactly when the call has     *)
(* returned, epoll watches the descriptor for a fiber only while it is     *)
(* open, and at most one timer of a fiber is armed, none after the call.   *)
TypeOK ==
  /\ pc \in [Fibers -> {"enter", "call", "timer", "add", "asleep", "resumed",
                        "done"}]
  /\ result \in [Fibers -> {"none", "data", "error", "ETIMEDOUT"}]
  /\ reg \in Fibers \cup {NoFiber} /\ queue \subseteq Fibers
  /\ armed \cup cancelled \cup late \cup cancelling \subseteq Timed
  /\ fired \in [Fibers -> Nat]
  /\ data \in 0 .. MaxData /\ arrivals \in 0 .. MaxData
  /\ file \in 1 .. MaxFiles /\ open \in BOOLEAN
  /\ closing \in {"no", "cancelled", "deleted"} /\ (closing # "no" => open)
  /\ watched \in BOOLEAN /\ (watched => open /\ reg # NoFiber)
  /\ slipped \in BOOLEAN /\ (slipped => reg # NoFiber)
  /\ \A f \in Fibers : /\ (result[f] = "none") = (pc[f] # "done")
                       /\ f \in armed => pc[f] \in {"add", "asleep", "resumed"}

(* Whatever wakes a waiting fiber, the event, its own or another call's    *)
(* timeout or close(), wakes it once: a fiber that has yielded in do_io is *)
(* either still registered or in the task queue, never both and never      *)
(* neither, and nobody else is.                                            *)
OneWake ==
  \A f \in Fibers :
    IF pc[f] = "asleep" THEN (reg = f) # (f \in queue)
                        ELSE reg # f /\ f \notin queue

(* A call that returns ETIMEDOUT let one of its own timers expire, however *)
(* late the callback runs and whoever else waits on the descriptor.        *)
OwnTimeout == \A f \in Fibers : result[f] = "ETIMEDOUT" => f \in late

(* A fiber that registered between cancelAll and close_f of a close()      *)
(* (hook.cpp:467-472): the table keeps it for a descriptor epoll has       *)
(* forgotten.  No event comes, and epoll_ctl fails in cancelEvent and      *)
(* cancelAll (ioscheduler.cpp:277-282), so that nothing wakes it any more. *)
Orphaned(f) == reg = f /\ slipped /\ ~watched

(* A reader does not sleep on data: it is woken, or another reader takes   *)
(* them, whatever the callbacks of old timers do.  Left out is an orphan,  *)
(* for which data may arrive when its number is used again.                *)
ReaderWakes ==
  \A f \in Fibers :
    (pc[f] = "asleep" /\ data > 0 /\ ~Orphaned(f))
      ~> (pc[f] # "asleep" \/ data = 0)

(* A fiber does not sleep past its timeout ("either data are read or the   *)
(* timeout runs", hook.cpp:163): its timer or something earlier wakes it.  *)
(* Left out is a timer whose callback was collected before the fiber went  *)
(* to sleep, or an earlier round's: such a callback spends itself on       *)
(* whatever is registered at that moment, and the fiber waits for data.    *)
(* An orphan is left out too, which its timer cannot wake.                 *)
TimeoutWakes ==
  \A f \in Timed :
    (pc[f] = "asleep" /\ f \in armed /\ fired[f] = 0 /\ f \notin cancelled)
      ~> (pc[f] # "asleep" \/ Orphaned(f))
=============================================================================
