----------------------------- MODULE HookConnect -----------------------------
(***************************************************************************)
(* connect_with_timeout (hook.cpp): a fiber starts a non-blocking connect, *)
(* arms a timer, registers for WRITE, yields, and when it is resumed takes *)
(* SO_ERROR for the outcome.                                               *)
(*                                                                         *)
(* Every fiber connects a socket of its own, and the fibers are            *)
(* independent: every action is about one.  What races is the network,     *)
(* the timer, its callback in the task queue, another fiber that writes to *)
(* the same socket, and close() of the descriptor by another fiber, in     *)
(* three steps and with the number used again.  The wait is built from the *)
(* same calls as in HookIO; the table of events is reduced to who is       *)
(* registered for WRITE.                                                   *)
(***************************************************************************)
EXTENDS Naturals, FiniteSets

CONSTANTS
  Fibers,
  Timed      \* fibers that give connect a timeout

ASSUME ConnectAssumption == Timed \subseteq Fibers

VARIABLES
  pc,         \* the next step of connect_with_timeout in each fiber
  net,        \* what became of the connection of each socket
  soError,    \* sockets with an error to report
  life,       \* how far the life of each descriptor has come
  armed,      \* fibers whose timer is in the heap
  fired,      \* fibers whose timer has expired, the callback not yet run
  cancelling, \* fibers whose callback has yet to call cancelEvent
  cancelled,  \* fibers whose timer_info::cancelled is ETIMEDOUT
  reg,        \* fibers registered for WRITE on their socket
  rival,      \* sockets on which another fiber is registered for WRITE
  watched,    \* descriptors epoll has for whoever is registered
  queue,      \* fibers handed to scheduleLock
  result,     \* what the call returned
  slipped,    \* fibers that registered while close() was under way (history)
  blind,      \* fibers others made look without an outcome (history)
  reused      \* fibers whose number became another file's (history)

netVars  == <<net, soError, life>>
waitVars == <<armed, fired, cancelling, cancelled>>
wakeVars == <<reg, rival, watched, queue>>
history  == <<slipped, blind, reused>>
connectVars == <<pc, result, netVars, waitVars, wakeVars, history>>

Goto(f, l) == pc' = [pc EXCEPT ![f] = l]

(* The call returns, and a callback of its timer that has not begun finds  *)
(* that timer_info is gone.                                                *)
Return(f, r) ==
  /\ Goto(f, "done")
  /\ result' = [result EXCEPT ![f] = r]
  /\ fired' = fired \ {f}

(* EPOLL_CTL_DEL and triggerEvent: whoever is registered goes to the       *)
(* scheduler; if epoll has forgotten the descriptor, epoll_ctl fails and   *)
(* nothing changes.                                                        *)
Trigger(f) ==
  IF f \in watched
  THEN /\ reg' = reg \ {f} /\ rival' = rival \ {f} /\ watched' = watched \ {f}
       /\ queue' = queue \cup (reg \cap {f})
  ELSE UNCHANGED wakeVars

\* The event is cancelled by another fiber's doing: f, if it waits, goes on.
TriggerBlindly(f) ==
  /\ Trigger(f)
  /\ blind' = blind \cup (reg \cap watched \cap {f})
  /\ UNCHANGED <<slipped, reused>>

-----------------------------------------------------------------------------
(* There is no FdCtx (any more): EBADF.                                    *)
NoContext(f) ==
  /\ pc[f] = "call" /\ life[f] \in {"deleted", "closed"}
  /\ Return(f, "error")
  /\ UNCHANGED <<netVars, armed, cancelling, cancelled, wakeVars, history>>

(* The system call: connected at once, EINPROGRESS, or another error.      *)
(* "n != -1 && errno != EINPROGRESS" holds of none of them, so that an     *)
(* error is waited for like a connection in progress.                      *)
Connect(f) ==
  /\ pc[f] = "call" /\ life[f] \in {"open", "cancelled"}
  /\ \/ net' = [net EXCEPT ![f] = "connected"] /\ Return(f, "connected")
     \/ /\ net' = [net EXCEPT ![f] = "connecting"]
        /\ Goto(f, "timer") /\ UNCHANGED <<result, fired>>
     \/ /\ net' = [net EXCEPT ![f] = "failed"]
        /\ Goto(f, "timer") /\ UNCHANGED <<result, fired>>
  /\ UNCHANGED <<soError, life, armed, cancelling, cancelled, wakeVars, history>>

AddTimer(f) ==
  /\ pc[f] = "timer"
  /\ armed' = IF f \in Timed THEN armed \cup {f} ELSE armed
  /\ Goto(f, "add")
  /\ UNCHANGED <<result, netVars, fired, cancelling, cancelled, wakeVars,
                 history>>

(* addEvent and yield.  It fails on a closed descriptor, and when WRITE is *)
(* registered already; the outcome is then looked at without a wait.       *)
AddEvent(f) ==
  /\ pc[f] = "add"
  /\ IF life[f] # "closed" /\ f \notin rival
     THEN /\ reg' = reg \cup {f} /\ watched' = watched \cup {f}
          /\ slipped' = IF life[f] = "open" THEN slipped ELSE slipped \cup {f}
          /\ Goto(f, "asleep")
          /\ UNCHANGED <<armed, blind>>
     ELSE /\ armed' = armed \ {f} /\ Goto(f, "getsockopt")
          /\ blind' = blind \cup (rival \cap {f})
          /\ UNCHANGED <<reg, watched, slipped>>
  /\ UNCHANGED <<result, netVars, fired, cancelling, cancelled, rival, queue,
                 reused>>

Resume(f) ==
  /\ pc[f] = "asleep" /\ f \in queue
  /\ queue' = queue \ {f} /\ armed' = armed \ {f}
  /\ IF f \in cancelled THEN Return(f, "ETIMEDOUT")
     ELSE Goto(f, "getsockopt") /\ UNCHANGED <<result, fired>>
  /\ UNCHANGED <<netVars, cancelling, cancelled, reg, rival, watched, history>>

(* getsockopt(SO_ERROR), which clears the error.                           *)
GetSockOpt(f) ==
  /\ pc[f] = "getsockopt"
  /\ Return(f, IF life[f] = "closed" \/ f \in soError THEN "error"
               ELSE "connected")
  /\ soError' = soError \ {f}
  /\ UNCHANGED <<net, life, armed, cancelling, cancelled, wakeVars, history>>

-----------------------------------------------------------------------------
Expire(f) ==
  /\ f \in armed
  /\ armed' = armed \ {f} /\ fired' = fired \cup {f}
  /\ UNCHANGED <<pc, result, netVars, cancelling, cancelled, wakeVars,
                 history>>

\* Mutant: the callback cancels the event and forgets to mark the call.
CallbackForgets(f) ==
  /\ f \in fired /\ fired' = fired \ {f}
  /\ cancelling' = cancelling \cup {f}
  /\ UNCHANGED <<pc, result, netVars, armed, cancelled, wakeVars, history>>

(* The timer's callback marks the call, then cancels the event.            *)
Callback(f) ==
  /\ f \in fired /\ fired' = fired \ {f}
  /\ cancelled' = cancelled \cup {f} /\ cancelling' = cancelling \cup {f}
  /\ UNCHANGED <<pc, result, netVars, armed, wakeVars, history>>

CallbackCancel(f) ==
  /\ f \in cancelling /\ cancelling' = cancelling \ {f}
  /\ Trigger(f)
  /\ UNCHANGED <<pc, result, netVars, armed, fired, cancelled, history>>

(* idle(): WRITE, or an error that stands for it: the connection has been  *)
(* decided, or the socket has none.                                        *)
WriteEvent(f) ==
  /\ f \in watched /\ net[f] # "connecting"
  /\ Trigger(f)
  /\ UNCHANGED <<pc, result, netVars, waitVars, history>>

(* The network decides.                                                    *)
Decide(f) ==
  /\ net[f] = "connecting" /\ life[f] # "closed"
  /\ \/ net' = [net EXCEPT ![f] = "connected"] /\ UNCHANGED soError
     \/ net' = [net EXCEPT ![f] = "refused"] /\ soError' = soError \cup {f}
  /\ UNCHANGED <<pc, result, life, waitVars, wakeVars, history>>

-----------------------------------------------------------------------------
(* Another fiber writes to the socket while connect() is under way.  It    *)
(* finds the connection in progress and waits for WRITE, in do_io, ...     *)
RivalWaits(f) ==
  /\ net[f] = "connecting" /\ life[f] # "closed" /\ pc[f] # "done"
  /\ f \notin reg \cup rival
  /\ rival' = rival \cup {f} /\ watched' = watched \cup {f}
  /\ UNCHANGED <<pc, result, netVars, waitVars, reg, queue, history>>

(* ... its own timer's callback calls cancelEvent, whoever is registered   *)
(* by then, ...                                                            *)
RivalCancels(f) ==
  /\ f \in watched /\ net[f] = "connecting"
  /\ TriggerBlindly(f)
  /\ UNCHANGED <<pc, result, netVars, waitVars>>

(* ... or it gets the error of the connection, which send() clears.        *)
RivalTakesError(f) ==
  /\ f \in soError /\ pc[f] # "done"
  /\ soError' = soError \ {f} /\ blind' = blind \cup {f}
  /\ UNCHANGED <<pc, result, net, life, waitVars, wakeVars, slipped, reused>>

\* Mutant: close() does not wake who waits.
StartCloseSkips(f) ==
  /\ life[f] = "open" /\ life' = [life EXCEPT ![f] = "cancelled"]
  /\ UNCHANGED <<pc, result, net, soError, waitVars, wakeVars, history>>

(* Hooked close() of another fiber: cancelAll, ...                         *)
StartClose(f) ==
  /\ life[f] = "open" /\ life' = [life EXCEPT ![f] = "cancelled"]
  /\ TriggerBlindly(f)
  /\ UNCHANGED <<pc, result, net, soError, waitVars>>

(* ... del, ...                                                            *)
Del(f) ==
  /\ life[f] = "cancelled" /\ life' = [life EXCEPT ![f] = "deleted"]
  /\ UNCHANGED <<pc, result, net, soError, waitVars, wakeVars, history>>

(* ... and the system call, with which epoll forgets the descriptor.       *)
Close(f) ==
  /\ life[f] = "deleted" /\ life' = [life EXCEPT ![f] = "closed"]
  /\ watched' = watched \ {f}
  /\ UNCHANGED <<pc, result, net, soError, waitVars, reg, rival, queue,
                 history>>

(* While the call is under way its number is given to another socket,      *)
(* which another fiber may connect, too.                                   *)
Reuse(f) ==
  /\ life[f] = "closed" /\ pc[f] \notin {"call", "done"} /\ f \notin reused
  /\ life' = [life EXCEPT ![f] = "open"] /\ reused' = reused \cup {f}
  /\ \E n \in {"fresh", "connecting"} : net' = [net EXCEPT ![f] = n]
  /\ soError' = soError \ {f}
  /\ UNCHANGED <<pc, result, waitVars, wakeVars, slipped, blind>>

-----------------------------------------------------------------------------
ConnectInit ==
  /\ pc = [f \in Fibers |-> "call"] /\ result = [f \in Fibers |-> "none"]
  /\ net = [f \in Fibers |-> "fresh"] /\ soError = {}
  /\ life = [f \in Fibers |-> "open"]
  /\ armed = {} /\ fired = {} /\ cancelling = {} /\ cancelled = {}
  /\ reg = {} /\ rival = {} /\ watched = {} /\ queue = {}
  /\ slipped = {} /\ blind = {} /\ reused = {}

Step(f) == \/ NoContext(f) \/ Connect(f) \/ AddTimer(f) \/ AddEvent(f)
           \/ Resume(f) \/ GetSockOpt(f)
Served(f) == \/ Expire(f) \/ Callback(f) \/ CallbackCancel(f) \/ WriteEvent(f)
             \/ Decide(f)
Others(f) == \/ RivalWaits(f) \/ RivalCancels(f) \/ RivalTakesError(f)
             \/ StartClose(f) \/ Del(f) \/ Close(f) \/ Reuse(f)

ConnectNext == \E f \in Fibers : Step(f) \/ Served(f) \/ Others(f)

ConnectSpec == ConnectInit /\ [][ConnectNext]_connectVars
(* Fibers and callbacks are run, deadlines pass, and the network decides   *)
(* in the end: the kernel gives a connection attempt up.  Other fibers     *)
(* need not write or close, nor end a close().                             *)
ConnectFairSpec ==
  /\ ConnectSpec
  /\ \A f \in Fibers :
       /\ WF_connectVars(Step(f)) /\ WF_connectVars(Expire(f))
       /\ WF_connectVars(Callback(f)) /\ WF_connectVars(CallbackCancel(f))
       /\ WF_connectVars(WriteEvent(f)) /\ WF_connectVars(Decide(f))

-----------------------------------------------------------------------------
(* The types; only a fiber that has yielded is registered or queued, and   *)
(* only a call with a timeout is ever timed out.                           *)
ConnectTypes ==
  /\ pc \in [Fibers -> {"call", "timer", "add", "asleep", "getsockopt",
                        "done"}]
  /\ net \in [Fibers -> {"fresh", "connecting", "connected", "refused",
                     "failed"}]
  /\ result \in [Fibers -> {"none", "connected", "error", "ETIMEDOUT"}]
  /\ reg \cup queue \subseteq {f \in Fibers : pc[f] = "asleep"}
  /\ armed \cup fired \cup cancelling \cup cancelled \subseteq Timed
  /\ soError \cup slipped \cup blind \cup reused \subseteq Fibers
  /\ life \in [Fibers -> {"open", "cancelled", "deleted", "closed"}]
  /\ watched \subseteq {f \in reg \cup rival : life[f] # "closed"}
  /\ reg \cap rival = {} /\ rival \subseteq Fibers

(* connect() returns 0 only for a socket that is connected, however the    *)
(* network, the timeout, its queued callback and close() race.  It returns *)
(* 0, too, for an error that the system call reported at once and that     *)
(* "直接返回错误代码" (hook.cpp:316) would have returned.                       *)
(* Left out is a call that others make look at SO_ERROR before there is an *)
(* outcome, or after it was taken (blind): another fiber waits for WRITE,  *)
(* so that addEvent fails (ioscheduler.cpp:154, hook.cpp:359-378), cancels *)
(* that event by its own timeout, or gets the error from send(); or        *)
(* close() wakes the fiber, which looks before close_f (hook.cpp:467-472). *)
(* So is a call whose number becomes another file's (reused).              *)
ConnectTruth ==
  \A f \in Fibers \ (blind \cup reused) :
    result[f] = "connected" => net[f] \in {"connected", "failed"}

(* A fiber that registered between cancelAll and close_f: nothing wakes it *)
(* any more (see HookIO).                                                  *)
Orphaned(f) == f \in (reg \cap slipped) \ watched

(* connect() returns, also when its timer has expired before the fiber was *)
(* registered, and whoever else uses the socket: the network's decision    *)
(* ends the wait.  Left out is an orphan of close().                       *)
ConnectReturns ==
  \A f \in Fibers : (pc[f] = "timer") ~> (pc[f] = "done" \/ Orphaned(f))
=============================================================================
