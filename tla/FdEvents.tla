------------------------------ MODULE FdEvents ------------------------------
(***************************************************************************)
(* The event table of IOManager (ioscheduler.h, ioscheduler.cpp): which    *)
(* fiber or callback waits for which event of which descriptor, what epoll *)
(* has been told of it, and how addEvent, delEvent, cancelEvent, cancelAll *)
(* and the idle workers that serve epoll_wait work on it together.         *)
(*                                                                         *)
(* FdContext::mutex makes each call, and each iteration of idle() over an  *)
(* epoll_event, one step; what epoll_wait returned to a worker is a        *)
(* snapshot that may be old when the worker comes to it.  A waiter stands  *)
(* for one addEvent call, and is woken when it is handed to scheduleLock.  *)
(***************************************************************************)
EXTENDS Naturals, FiniteSets

CONSTANTS
  Fds,       \* descriptor numbers
  Waiters,   \* the fibers and callbacks the application registers, once each
  NoWaiter,  \* an EventContext after resetEventContext()
  Workers    \* threads that execute IOManager::idle

ASSUME WaitersAssumption == NoWaiter \notin Waiters
ASSUME SetsAssumption == IsFiniteSet(Fds) /\ IsFiniteSet(Workers)

Event == {"READ", "WRITE"}
Condition == Event \cup {"ERR"}       \* EPOLLIN, EPOLLOUT, EPOLLERR | EPOLLHUP

VARIABLES
  events,    \* FdContext::events
  ctx,       \* the EventContexts read and write
  pending,   \* m_pendingEventCount
  woken,     \* how often a waiter was handed to scheduleLock
  used,      \* waiters that addEvent has been called with
  closing,   \* descriptors inside hooked close(), after cancelAll
  orphaned,  \* descriptors closed with an event still registered (history)
  interest,  \* the events epoll watches; {} when it does not know the fd
  cond,      \* the conditions that hold of the descriptor
  ready,     \* the descriptors on the ready list of epoll
  batch,     \* the epoll_events a worker has still to look at
  aborted    \* an assertion has failed: "no", "stale" (on an epoll_event
             \* that was right when epoll_wait returned it) or "fresh"

tableVars  == <<events, ctx, pending, woken, used>>
kernelVars == <<interest, cond, ready>>
closeVars == <<closing, orphaned>>
vars == <<tableVars, kernelVars, closeVars, batch, aborted>>

Slots == Fds \X Event

-----------------------------------------------------------------------------
(* epoll: entries are edge triggered; one joins the ready list when a      *)
(* condition it asks for arises, or holds when epoll_ctl names it.         *)

Asked(mask) == IF mask = {} THEN {} ELSE mask \cup {"ERR"}

epoll_ctl(fd, mask) ==
  /\ interest' = [interest EXCEPT ![fd] = mask]
  /\ ready' = IF cond[fd] \cap Asked(mask) # {} THEN ready \cup {fd}
              ELSE IF mask = {} THEN ready \ {fd} ELSE ready
  /\ UNCHANGED cond

\* ADD fails for a descriptor epoll knows, MOD and DEL for another one.
AddOpFits(fd) == (interest[fd] = {}) <=> (events[fd] = {})
DelOpFits(fd) == interest[fd] # {}

Arises(fd, c) ==
  /\ c \notin cond[fd]
  /\ cond' = [cond EXCEPT ![fd] = @ \cup {c}]
  /\ ready' = IF c \in Asked(interest[fd]) THEN ready \cup {fd} ELSE ready
  /\ UNCHANGED <<tableVars, interest, closeVars, batch, aborted>>

Passes(fd, c) ==
  /\ c \in cond[fd]
  /\ cond' = [cond EXCEPT ![fd] = @ \ {c}]
  /\ UNCHANGED <<tableVars, interest, ready, closeVars, batch, aborted>>

-----------------------------------------------------------------------------
(* The calls.  They come from fibers and from threads that are no workers. *)

CanCall == aborted = "no"   \* a failed assertion has not ended the process

\* Take the waiters for the events evs of fd out of the table.
Remove(fd, evs) ==
  /\ events' = [events EXCEPT ![fd] = @ \ evs]
  /\ ctx' = [s \in Slots |-> IF s \in {fd} \X evs THEN NoWaiter ELSE ctx[s]]
  /\ pending' = pending - Cardinality(evs)
  /\ UNCHANGED used

\* triggerEvent for each of evs: the waiter goes to the scheduler.
Wake(fd, evs) ==
  woken' = [x \in Waiters |->
              woken[x] + Cardinality({e \in evs : ctx[<<fd, e>>] = x})]

addEvent(fd, e, x) ==
  /\ CanCall /\ x \notin used
  /\ e \notin events[fd] /\ AddOpFits(fd)
  /\ epoll_ctl(fd, events[fd] \cup {e})
  /\ used' = used \cup {x}
  /\ pending' = pending + 1
  /\ events' = [events EXCEPT ![fd] = @ \cup {e}]
  /\ IF ctx[<<fd, e>>] = NoWaiter
     THEN ctx' = [ctx EXCEPT ![<<fd, e>>] = x] /\ UNCHANGED aborted
     ELSE aborted' = "fresh" /\ UNCHANGED ctx
  /\ UNCHANGED <<woken, closeVars, batch>>

delEvent(fd, e) ==
  /\ CanCall
  /\ e \in events[fd] /\ DelOpFits(fd)
  /\ epoll_ctl(fd, events[fd] \ {e})
  /\ Remove(fd, {e})
  /\ UNCHANGED <<woken, closeVars, batch, aborted>>

\* Mutant: epoll is not told.
CancelKeepsInterest(fd, e) ==
  /\ CanCall
  /\ e \in events[fd] /\ DelOpFits(fd)
  /\ Remove(fd, {e}) /\ Wake(fd, {e})
  /\ UNCHANGED <<kernelVars, closeVars, batch, aborted>>

cancelEvent(fd, e) ==
  /\ CanCall
  /\ e \in events[fd] /\ DelOpFits(fd)
  /\ epoll_ctl(fd, events[fd] \ {e})
  /\ Remove(fd, {e}) /\ Wake(fd, {e})
  /\ UNCHANGED <<closeVars, batch, aborted>>

\* Mutant: cancelAll() triggers both contexts without clearing the events.
CancelAllKeepsEvents(fd) ==
  /\ events[fd] # {} /\ DelOpFits(fd)
  /\ epoll_ctl(fd, {})
  /\ Wake(fd, events[fd])
  /\ ctx' = [s \in Slots |-> IF s[1] = fd THEN NoWaiter ELSE ctx[s]]
  /\ UNCHANGED <<events, pending, used>>

cancelAll(fd) ==
  /\ events[fd] # {} /\ DelOpFits(fd)
  /\ epoll_ctl(fd, {})
  /\ Remove(fd, events[fd]) /\ Wake(fd, events[fd])

CancelAll(fd) ==
  /\ CanCall /\ cancelAll(fd)
  /\ UNCHANGED <<closeVars, batch, aborted>>

(* Hooked close(): cancelAll, then the system call; closing a descriptor   *)
(* takes it out of epoll, and its number may be in use again at once.  An  *)
(* event that was added between the two stays in the table for good: every *)
(* epoll_ctl for it fails.                                                 *)
CloseBegin(fd) ==
  /\ CanCall /\ fd \notin closing
  /\ closing' = closing \cup {fd} /\ UNCHANGED orphaned
  /\ \/ cancelAll(fd)
     \/ (events[fd] = {} \/ ~DelOpFits(fd)) /\ UNCHANGED <<tableVars, kernelVars>>
  /\ UNCHANGED <<batch, aborted>>

CloseEnd(fd) ==
  /\ CanCall /\ fd \in closing
  /\ closing' = closing \ {fd}
  /\ orphaned' = IF events[fd] = {} THEN orphaned ELSE orphaned \cup {fd}
  /\ interest' = [interest EXCEPT ![fd] = {}]
  /\ cond' = [cond EXCEPT ![fd] = {}]
  /\ ready' = ready \ {fd}
  /\ UNCHANGED <<tableVars, batch, aborted>>

-----------------------------------------------------------------------------
(* IOManager::idle.                                                        *)

epoll_wait(w) ==
  /\ CanCall /\ batch[w] = {}
  /\ LET revents(fd) == cond[fd] \cap Asked(interest[fd])
         evs == {[fd |-> fd, revents |-> revents(fd),
                  right |-> revents(fd) \cap Event \subseteq events[fd]] :
                   fd \in ready}
     IN batch' = [batch EXCEPT ![w] = {ev \in evs : ev.revents # {}}]
  /\ ready # {} /\ ready' = {}
  /\ UNCHANGED <<tableVars, interest, cond, closeVars, aborted>>

\* What a failed assertion of triggerEvent is due to: the table has changed
\* since epoll_wait, or epoll watched what was not registered even then.
Blame(ev) == IF ev.right THEN "stale" ELSE "fresh"

(* An error counts as every event that is registered.                      *)
RealEvents(ev) == IF "ERR" \in ev.revents
                  THEN (ev.revents \cap Event) \cup events[ev.fd]
                  ELSE ev.revents \cap Event

\* Mutant: idle() deletes the descriptor from epoll though events are left.
ProcessDeletes(w, ev) ==
  LET fd == ev.fd
      real == RealEvents(ev)
  IN
  /\ CanCall /\ ev \in batch[w]
  /\ batch' = [batch EXCEPT ![w] = @ \ {ev}]
  /\ IF events[fd] \cap real = {} \/ ~DelOpFits(fd)
     THEN UNCHANGED <<tableVars, kernelVars, aborted>>
     ELSE /\ epoll_ctl(fd, {})
          /\ IF real \subseteq events[fd]
             THEN Remove(fd, real) /\ Wake(fd, real) /\ UNCHANGED aborted
             ELSE aborted' = Blame(ev) /\ UNCHANGED tableVars
  /\ UNCHANGED closeVars

\* Mutant: an event is triggered but m_pendingEventCount not lowered.
ProcessLeaks(w, ev) ==
  LET fd == ev.fd
      real == RealEvents(ev)
  IN
  /\ CanCall /\ ev \in batch[w]
  /\ batch' = [batch EXCEPT ![w] = @ \ {ev}]
  /\ IF events[fd] \cap real = {} \/ ~DelOpFits(fd)
     THEN UNCHANGED <<tableVars, kernelVars, aborted>>
     ELSE /\ epoll_ctl(fd, events[fd] \ real)
          /\ events' = [events EXCEPT ![fd] = @ \ real]
          /\ ctx' = [s \in Slots |->
                       IF s \in {fd} \X real THEN NoWaiter ELSE ctx[s]]
          /\ Wake(fd, real)
          /\ UNCHANGED <<pending, used, aborted>>
  /\ UNCHANGED closeVars

(* One iteration over the epoll_events.  triggerEvent asserts that the     *)
(* event it is called for is registered.                                   *)
Process(w, ev) ==
  LET fd == ev.fd
      real == RealEvents(ev)
  IN
  /\ CanCall /\ ev \in batch[w]
  /\ batch' = [batch EXCEPT ![w] = @ \ {ev}]
  /\ IF events[fd] \cap real = {} \/ ~DelOpFits(fd)
     THEN UNCHANGED <<tableVars, kernelVars, aborted>>
     ELSE /\ epoll_ctl(fd, events[fd] \ real)
          /\ IF real \subseteq events[fd]
             THEN Remove(fd, real) /\ Wake(fd, real) /\ UNCHANGED aborted
             ELSE aborted' = Blame(ev) /\ UNCHANGED tableVars
  /\ UNCHANGED closeVars

-----------------------------------------------------------------------------
Init ==
  /\ events = [fd \in Fds |-> {}] /\ ctx = [s \in Slots |-> NoWaiter]
  /\ pending = 0 /\ woken = [x \in Waiters |-> 0] /\ used = {}
  /\ closing = {} /\ orphaned = {} /\ interest = [fd \in Fds |-> {}]
  /\ cond = [fd \in Fds |-> {}] /\ ready = {}
  /\ batch = [w \in Workers |-> {}] /\ aborted = "no"

Call(fd) ==
  \/ \E e \in Event : \/ \E x \in Waiters : addEvent(fd, e, x)
                      \/ delEvent(fd, e) \/ cancelEvent(fd, e)
  \/ CancelAll(fd) \/ CloseBegin(fd) \/ CloseEnd(fd)

Idle(w) == epoll_wait(w) \/ \E ev \in batch[w] : Process(w, ev)

Environment(fd) == \E c \in Condition : Arises(fd, c) \/ Passes(fd, c)

Next ==
  \/ \E fd \in Fds : Call(fd) \/ Environment(fd)
  \/ \E w \in Workers : Idle(w)

Spec == Init /\ [][Next]_vars
(* An idle worker returns to epoll_wait, a call of close() ends.           *)
FairSpec ==
  /\ Spec
  /\ \A w \in Workers : WF_vars(Idle(w))
  /\ \A fd \in Fds : WF_vars(CloseEnd(fd))

-----------------------------------------------------------------------------
(* The types; m_pendingEventCount, which every way out of the table        *)
(* lowers, never falls below zero.                                         *)
TypeOK ==
  /\ events \in [Fds -> SUBSET Event]
  /\ ctx \in [Slots -> Waiters \cup {NoWaiter}]
  /\ pending \in Nat /\ woken \in [Waiters -> Nat] /\ used \subseteq Waiters
  /\ closing \cup orphaned \subseteq Fds
  /\ interest \in [Fds -> SUBSET Event] /\ cond \in [Fds -> SUBSET Condition]
  /\ ready \subseteq Fds
  /\ batch \in [Workers -> SUBSET [fd : Fds, revents : SUBSET Condition,
                                  right : BOOLEAN]]
  /\ aborted \in {"no", "stale", "fresh"}

Registered(x) == \E s \in Slots : ctx[s] = x

(* A waiter is in one slot of the table or has left it for good, and is    *)
(* woken at most once, by whichever of epoll, cancelEvent and cancelAll    *)
(* comes first; a slot is taken exactly while its event is registered.     *)
WokenOnce ==
  /\ \A x \in Waiters :
       /\ Cardinality({s \in Slots : ctx[s] = x}) + woken[x] <= 1
       /\ x \notin used => ~Registered(x) /\ woken[x] = 0
  /\ \A fd \in Fds, e \in Event :
       CanCall => (e \in events[fd] <=> ctx[<<fd, e>>] # NoWaiter)

(* m_pendingEventCount, which keeps the scheduler from stopping, is the    *)
(* number of registered events.                                            *)
PendingAgrees ==
  pending = Cardinality({s \in Slots : s[2] \in events[s[1]]})

(* What is edge triggered is not lost: an event that is registered and     *)
(* holds is on the ready list or in the hands of a worker that will find   *)
(* it registered (epoll_ctl after each change, idle()).  Only close() with  *)
(* an addEvent inside it, hook.cpp:467-472, leaves one that is.            *)
NoLostEdge ==
  \A fd \in Fds \ orphaned : \A e \in events[fd] :
    e \in cond[fd] /\ CanCall
      => \/ fd \in ready
         \/ \E w \in Workers : \E ev \in batch[w] :
              ev.fd = fd /\ {e, "ERR"} \cap ev.revents # {}

(* assert(events & event) in triggerEvent (ioscheduler.cpp:44) and         *)
(* assert(!event_ctx.scheduler && ...) in addEvent (ioscheduler.cpp:179)   *)
(* hold, with one exception: a worker applies what epoll_wait returned to  *)
(* an entry that a call or another worker has changed since, and triggers  *)
(* an event that is no longer there (idle() tests only that one of the     *)
(* events is, ioscheduler.cpp:452).                                        *)
AssertionsHold == aborted # "fresh"

(* No waiter stays registered for ever beside a condition that holds for   *)
(* ever: it is registered, awaited, scheduled (ioscheduler.h:10-11), unless *)
(* its descriptor was closed between its addEvent and the cancelAll of the *)
(* same close().                                                           *)
EventServed ==
  \A fd \in Fds, e \in Event, x \in Waiters :
    ~ <>[](ctx[<<fd, e>>] = x /\ e \in cond[fd] /\ CanCall
            /\ fd \notin orphaned)
=============================================================================
