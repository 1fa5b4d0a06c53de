------------------------------ MODULE TaskPool ------------------------------
(***************************************************************************)
(* What the coroutine scheduler of corlib promises, without its queue,     *)
(* threads' program counters, counters, heap or epoll set: a fiber that is *)
(* handed to the scheduler is executed by one worker at a time, is resumed *)
(* once for every time it is scheduled or woken, and never again after it  *)
(* has terminated.  IOScheduler implements this specification.             *)
(***************************************************************************)
CONSTANTS Workers,  \* threads that execute Scheduler::run
          Fibers,   \* the fibers of the application
          Nobody    \* the runner of a fiber that is not executing

VARIABLES status,   \* "new", "ready", "running", "waiting" or "done"
          runner    \* the worker that executes each fiber

vars == <<status, runner>>

Init ==
  /\ status = [f \in Fibers |-> "new"]
  /\ runner = [f \in Fibers |-> Nobody]

Busy(w) == \E f \in Fibers : runner[f] = w

Move(f, from, to) ==
  /\ status[f] = from
  /\ status' = [status EXCEPT ![f] = to]

\* The application hands over a fiber for the first time.
Submit(f) == Move(f, "new", "ready") /\ UNCHANGED runner

\* A worker that executes nothing resumes a fiber nobody executes.
Resume(w, f) ==
  /\ Move(f, "ready", "running")
  /\ runner[f] = Nobody /\ ~Busy(w)
  /\ runner' = [runner EXCEPT ![f] = w]

\* The fiber arranges for its wake-up; its worker has still to leave it.
Block(f) == Move(f, "running", "waiting") /\ UNCHANGED runner

\* The timer or event the fiber waits for has been served, perhaps before
\* its worker has left it.
Wake(f) == Move(f, "waiting", "ready") /\ UNCHANGED runner

\* The worker leaves the fiber that has blocked.
Leave(f) ==
  /\ runner[f] # Nobody /\ status[f] \in {"waiting", "ready"}
  /\ runner' = [runner EXCEPT ![f] = Nobody]
  /\ UNCHANGED status

\* The fiber's function returns.
Complete(f) ==
  /\ Move(f, "running", "done")
  /\ runner' = [runner EXCEPT ![f] = Nobody]

Next ==
  \E f \in Fibers :
    \/ Submit(f) \/ Block(f) \/ Wake(f) \/ Leave(f) \/ Complete(f)
    \/ \E w \in Workers : Resume(w, f)

Spec == Init /\ [][Next]_vars
=============================================================================
