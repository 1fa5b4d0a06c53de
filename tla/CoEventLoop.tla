---------------------------- MODULE CoEventLoop ----------------------------
(***************************************************************************)
(* libco's event loop (co_eventloop in libco/co_routine.cpp): coroutines   *)
(* wait for a descriptor (co_poll), on a condition (co_cond_timedwait) or  *)
(* for a time, the timeout wheel keeps their deadlines, and the main       *)
(* coroutine resumes them from the active list.                            *)
(*                                                                         *)
(* A coroutine has at most one wait, so that its item in the lists is      *)
(* named after it; a poll has one descriptor.  An item is on one list at   *)
(* most: AddTail ignores an item that has a pLink.  The wheel has one slot *)
(* per millisecond.  Coroutines are resumed by hand only when they have    *)
(* left the processor by hand.                                             *)
(***************************************************************************)
EXTENDS CoRoutine

CONSTANTS Fds,
          WheelSize,   \* iItemSize
          Timeouts,    \* the timeouts asked for; 0 stands for the negative ones,
                       \* that is forever, since a poll with 0 does not wait
          MaxNow,      \* a bound on the clock
          MaxCalls     \* a bound on the calls of all coroutines together

ASSUME LoopAssumption ==
  /\ WheelSize \in Nat \ {0} /\ MaxNow \in Nat /\ MaxCalls \in Nat
  /\ Timeouts \subseteq Nat /\ IsFiniteSet(Fds)

VARIABLES now,                  \* the clock
          back,                 \* it has gone back, once
          slots, start, idx,    \* the wheel: pItems, ullStart, llStartIdx
          active,               \* pstActiveList
          cond,                 \* the condition's list
          wait,                 \* of each coroutine: "no", "hand", "poll", "cond"
          pollFd, expire, bTimeout, detach,
          interest,             \* epoll: the coroutine registered for each fd
          ready,                \* the descriptors that are ready
          loop, loopNow,        \* co_eventloop: "out", "wait" or "active"
          calls,
          contested,            \* history: descriptors polled by two at once
          overtaken             \* history: signalled on the active list, timed
                                \* out but not expired

wheel == <<slots, start, idx>>
items == <<wait, pollFd, expire, bTimeout, detach>>
world == <<now, back, ready>>
history == <<contested, overtaken>>
vars == <<coVars, world, wheel, active, cond, items, interest, loop, loopNow, calls, history>>

-----------------------------------------------------------------------------
\* The lists and the wheel.

\* RemoveFromLink for each item of cs
Without(s, cs) ==
  LET kept[n \in 0..Len(s)] == IF n = 0 THEN <<>>
                               ELSE IF s[n] \in cs THEN kept[n - 1]
                               ELSE Append(kept[n - 1], s[n])
  IN  kept[Len(s)]
Unlinked(cs) == [i \in DOMAIN slots |-> Without(slots[i], cs)]

Never == MaxNow + 2 * WheelSize
Deadline(ms) == IF ms = 0 THEN Never ELSE now + ms

\* AddTimeout: it refuses when the clock is behind the wheel, and puts what is
\* beyond the wheel on its last slot.
Accepts(time) == time >= start
SlotOf(deadline) ==
  LET diff == deadline - start
  IN  (idx + (IF diff >= WheelSize THEN WheelSize - 1 ELSE diff)) % WheelSize
AddTimeout(c, deadline) ==
  /\ slots' = [slots EXCEPT ![SlotOf(deadline)] = Append(@, c)]
  /\ UNCHANGED <<start, idx>>

\* TakeAllTimeout(time) of the wheel s; the slots it empties, in order
Count(time) ==
  IF time < start THEN 0
  ELSE IF time - start + 1 > WheelSize THEN WheelSize ELSE time - start + 1

Taken(s, time) == FlattenSeq([i \in 1..Count(time) |-> s[((idx + i) - 1) % WheelSize]])
TakeAllTimeout(s, time) ==
  /\ slots' = [i \in DOMAIN s |->
                 IF \E j \in 1..Count(time) : i = ((idx + j) - 1) % WheelSize THEN <<>> ELSE s[i]]
  /\ IF time < start THEN UNCHANGED <<start, idx>>
     ELSE start' = time /\ idx' = ((idx + Count(time)) - 1) % WheelSize

-----------------------------------------------------------------------------
\* What the running coroutine c does.

Calls(c) == c \in Cos /\ Runs(c) /\ wait[c] = "no" /\ calls < MaxCalls
              /\ calls' = calls + 1

Freed(c) == /\ wait' = [wait EXCEPT ![c] = "no"]
            /\ pollFd' = [pollFd EXCEPT ![c] = Null]
            /\ expire' = [expire EXCEPT ![c] = 0]
            /\ bTimeout' = [bTimeout EXCEPT ![c] = FALSE]
            /\ detach' = [detach EXCEPT ![c] = FALSE]

\* co_poll_inner up to its yield.  A descriptor that epoll knows already is
\* not registered again, and only the timeout is left.  The clean-up of a
\* wait that could not start is the one of PollReturn.
Poll(c, fd, ms) ==
  /\ Calls(c)
  /\ contested' = IF interest[fd] # Null THEN contested \cup {fd} ELSE contested
  /\ IF Accepts(now)
       THEN /\ interest' = IF interest[fd] = Null THEN [interest EXCEPT ![fd] = c] ELSE interest
            /\ AddTimeout(c, Deadline(ms))
            /\ wait' = [wait EXCEPT ![c] = "poll"]
            /\ pollFd' = [pollFd EXCEPT ![c] = fd]
            /\ expire' = [expire EXCEPT ![c] = Deadline(ms)]
            /\ UNCHANGED <<bTimeout, detach>>
            /\ co_yield_env
       ELSE /\ interest' = [interest EXCEPT ![fd] = Null]
            /\ UNCHANGED <<wheel, items, coVars>>
  /\ UNCHANGED <<world, active, cond, loop, loopNow, overtaken>>

\* co_poll_inner after its yield
PollReturn(c) ==
  /\ c \in Cos /\ Runs(c) /\ wait[c] = "poll"
  /\ Freed(c)
  /\ slots' = Unlinked({c}) /\ active' = Without(active, {c})
  /\ interest' = [interest EXCEPT ![pollFd[c]] = Null]
  /\ UNCHANGED <<coVars, world, start, idx, cond, loop, loopNow, calls, history>>

\* co_cond_timedwait up to its yield; without a time the wheel is not used
CondWait(c, ms) ==
  /\ Calls(c)
  /\ IF ms > 0 /\ ~Accepts(now)
       THEN UNCHANGED <<wheel, cond, items, coVars>>
       ELSE /\ IF ms > 0 THEN AddTimeout(c, Deadline(ms)) ELSE UNCHANGED wheel
            /\ cond' = Append(cond, c)
            /\ wait' = [wait EXCEPT ![c] = "cond"]
            /\ expire' = [expire EXCEPT ![c] = Deadline(ms)]
            /\ UNCHANGED <<pollFd, bTimeout, detach>>
            /\ co_yield_env
  /\ UNCHANGED <<world, active, interest, loop, loopNow, contested, overtaken>>

CondReturn(c) ==
  /\ c \in Cos /\ Runs(c) /\ wait[c] = "cond"
  /\ Freed(c)
  /\ cond' = Without(cond, {c})
  /\ overtaken' = overtaken \ {c}
  /\ UNCHANGED <<coVars, world, wheel, active, interest, loop, loopNow, calls, contested>>

\* co_cond_signal takes the first waiter from whatever list its timeout is on
\* to the end of the active list; co_cond_broadcast does so with all.
Wake(woken) ==
  /\ cond' = SubSeq(cond, Len(woken) + 1, Len(cond))
  /\ slots' = Unlinked(Range(woken))
  /\ active' = Without(active, Range(woken)) \o woken
  /\ overtaken' = overtaken \cup
       {d \in Range(woken) : Contains(active, d) /\ bTimeout[d] /\ loopNow < expire[d]}

co_cond_signal(c) ==
  /\ Calls(c)
  /\ Wake(IF cond = <<>> THEN <<>> ELSE <<Head(cond)>>)
  /\ UNCHANGED <<coVars, world, start, idx, items, interest, loop, loopNow, contested>>

co_cond_broadcast(c) ==
  /\ Calls(c)
  /\ Wake(cond)
  /\ UNCHANGED <<coVars, world, start, idx, items, interest, loop, loopNow, contested>>

Others == UNCHANGED <<world, wheel, active, cond, interest, loop, loopNow, history>>

\* co_yield_ct by hand, and the return from it
Yield(c) == /\ Calls(c) /\ co_yield_env /\ wait' = [wait EXCEPT ![c] = "hand"]
            /\ UNCHANGED <<pollFd, expire, bTimeout, detach>> /\ Others
YieldReturn(c) == /\ c \in Cos /\ Runs(c) /\ wait[c] = "hand"
                  /\ wait' = [wait EXCEPT ![c] = "no"]
                  /\ UNCHANGED <<coVars, calls, pollFd, expire, bTimeout, detach>> /\ Others

\* Coroutines made, resumed, reset and released by others.  Only one that
\* does not wait in a list may be.
Manage(c, d) ==
  /\ d \in Cos \ {c} /\ ~Contains(callStack, d)
  /\ \/ co_create(d)
     \/ life[d] = "made" /\ co_resume(d)
     \/ life[d] = "started" /\ wait[d] = "hand" /\ co_resume(d)
     \/ wait[d] \in {"no", "hand"} /\ (co_reset(d) \/ co_free(d))
  /\ wait' = [wait EXCEPT ![d] = IF life'[d] = "started" THEN @ ELSE "no"]
  /\ UNCHANGED <<pollFd, expire, bTimeout, detach>> /\ Others

Call(c) ==
  \/ \E fd \in Fds, ms \in Timeouts : Poll(c, fd, ms)
  \/ \E ms \in Timeouts : CondWait(c, ms)
  \/ co_cond_signal(c) \/ co_cond_broadcast(c) \/ Yield(c)
  \/ \E d \in Cos : Calls(c) /\ Manage(c, d)

Return(c) == PollReturn(c) \/ CondReturn(c) \/ YieldReturn(c)
End(c) == /\ c \in Cos /\ Runs(c) /\ wait[c] = "no"
          /\ CoRoutineFunc /\ UNCHANGED <<items, calls>> /\ Others

-----------------------------------------------------------------------------
\* main(): it does the same, and then enters the loop.
MainCalls(d) == loop = "out" /\ Runs(Main) /\ calls < MaxCalls /\ calls' = calls + 1
                /\ Manage(Main, d)

EnterLoop == /\ loop = "out" /\ Runs(Main) /\ loop' = "wait"
             /\ UNCHANGED <<coVars, world, wheel, active, cond, items, interest, loopNow,
                            calls, history>>

\* Mutant: a poll that is raised stays linked to the wheel.
LoopKeepsLink ==
  /\ loop = "wait" /\ Runs(Main)
  /\ LET raised == {interest[fd] : fd \in ready} \ {Null}
     IN  detach' = [c \in Cos |-> detach[c] \/ c \in raised]
  /\ TakeAllTimeout(slots, now)
  /\ bTimeout' = [c \in Cos |-> bTimeout[c] \/ Contains(Taken(slots, now), c)]
  /\ active' = active \o Taken(slots, now)
  /\ loopNow' = now /\ loop' = "active"
  /\ UNCHANGED <<coVars, world, cond, wait, pollFd, expire, interest, calls, history>>

\* One turn up to the walk along the active list: the descriptors that
\* epoll_wait returned are prepared, then the timeouts are taken.
co_eventloop ==
  /\ loop = "wait" /\ Runs(Main)
  /\ \E hits \in SetToSeqs({fd \in ready : interest[fd] # Null}) :
       LET raised == [i \in DOMAIN hits |-> interest[hits[i]]]
           kept   == Unlinked(Range(raised))
           late   == Taken(kept, now)
       IN  /\ detach' = [c \in Cos |-> detach[c] \/ Contains(raised, c)]
           /\ TakeAllTimeout(kept, now)
           /\ bTimeout' = [c \in Cos |-> bTimeout[c] \/ Contains(late, c)]
           /\ active' = active \o raised \o late
  /\ loopNow' = now /\ loop' = "active"
  /\ UNCHANGED <<coVars, world, cond, wait, pollFd, expire, interest, calls, history>>

\* Mutant: what has not expired is not put back.
ProcessDrops ==
  /\ loop = "active" /\ Runs(Main) /\ active # <<>>
  /\ active' = Tail(active)
  /\ IF bTimeout[Head(active)] /\ loopNow < expire[Head(active)]
       THEN UNCHANGED coVars ELSE co_resume(Head(active))
  /\ UNCHANGED <<world, cond, wheel, items, interest, loop, loopNow, calls, history>>

\* Mutant: what was taken from the wheel has expired.
ProcessAll ==
  /\ loop = "active" /\ Runs(Main) /\ active # <<>>
  /\ active' = Tail(active)
  /\ co_resume(Head(active))
  /\ UNCHANGED <<world, cond, wheel, items, interest, loop, loopNow, calls, history>>

\* One item: back to the wheel when it was on the last slot and has not
\* expired, or processed.
Process ==
  /\ loop = "active" /\ Runs(Main) /\ active # <<>>
  /\ active' = Tail(active)
  /\ LET c == Head(active)
     IN  IF bTimeout[c] /\ loopNow < expire[c] /\ Accepts(loopNow)
           THEN /\ AddTimeout(c, expire[c])
                /\ bTimeout' = [bTimeout EXCEPT ![c] = FALSE]
                /\ UNCHANGED coVars
           ELSE co_resume(c) /\ UNCHANGED <<wheel, bTimeout>>
  /\ UNCHANGED <<world, cond, wait, pollFd, expire, detach, interest, loop, loopNow,
                 calls, history>>

NextTurn ==
  /\ loop = "active" /\ Runs(Main) /\ active = <<>>
  /\ loop' = "wait" /\ loopNow' = 0
  /\ UNCHANGED <<coVars, world, wheel, active, cond, items, interest, calls, history>>

-----------------------------------------------------------------------------
\* The world outside.
Tick == /\ now < MaxNow /\ now' = now + 1
        /\ UNCHANGED <<coVars, back, ready, wheel, active, cond, items, interest, loop,
                       loopNow, calls, history>>

\* gettimeofday is not monotonic.
TickBack == /\ ~back /\ now > 0 /\ now' = now - 1 /\ back' = TRUE
            /\ UNCHANGED <<coVars, ready, wheel, active, cond, items, interest, loop,
                           loopNow, calls, history>>

Arrive(fd) == /\ fd \notin ready /\ ready' = ready \cup {fd}
              /\ UNCHANGED <<coVars, now, back, wheel, active, cond, items, interest,
                             loop, loopNow, calls, history>>

Init ==
  /\ CoInit
  /\ now = 0 /\ back = FALSE /\ ready = {}
  /\ slots = [i \in 0..(WheelSize - 1) |-> <<>>] /\ start = 0 /\ idx = 0
  /\ active = <<>> /\ cond = <<>> /\ interest = [fd \in Fds |-> Null]
  /\ wait = [c \in Cos |-> "no"] /\ pollFd = [c \in Cos |-> Null]
  /\ expire = [c \in Cos |-> 0]
  /\ bTimeout = [c \in Cos |-> FALSE] /\ detach = [c \in Cos |-> FALSE]
  /\ loop = "out" /\ loopNow = 0 /\ calls = 0
  /\ contested = {} /\ overtaken = {}

Step == \/ \E c \in Cos : Call(c) \/ Return(c) \/ End(c)
        \/ \E d \in Cos : MainCalls(d)
        \/ EnterLoop \/ co_eventloop \/ Process \/ NextTurn
Next == Step \/ Tick \/ TickBack \/ \E fd \in Fds : Arrive(fd)

Spec == Init /\ [][Next]_vars
FairSpec == Spec /\ WF_vars(Tick) /\ WF_vars(EnterLoop \/ co_eventloop \/ Process \/ NextTurn)
                 /\ WF_vars(\E c \in Cos : Return(c) \/ End(c))
-----------------------------------------------------------------------------
TypeOK ==
  /\ CoTypeOK
  /\ slots \in [0..(WheelSize - 1) -> Seq(Cos)] /\ idx \in 0..(WheelSize - 1)
  /\ active \in Seq(Cos) /\ cond \in Seq(Cos)
  /\ wait \in [Cos -> {"no", "hand", "poll", "cond"}]
  /\ interest \in [Fds -> Cos \cup {Null}]
  /\ loop \in {"out", "wait", "active"}

\* A wait is not late: the slot of a waiting item comes no later than its
\* deadline, however far that was beyond the wheel and however the slots have
\* turned since (co_routine.cpp:399-409 and 425-440).  Nor is it early: it ends
\* by its event, by a signal, or when its time is over, never because the wheel
\* was too short for it (843-852).
OnTime ==
  /\ \A i \in DOMAIN slots : \A c \in Range(slots[i]) :
       start + (((i - idx) + WheelSize) % WheelSize) <= expire[c]
  /\ \A c \in Cos : c = Top /\ wait[c] \in {"poll", "cond"} =>
       \/ wait[c] = "poll" /\ detach[c]
       \/ wait[c] = "cond" /\ ~Contains(cond, c)
       \/ loopNow >= expire[c]

\* What is to wake a wait is not lost.  A signal wakes its waiter in the same
\* walk along the active list; unless the waiter was on that list, taken early
\* from the last slot: then it goes back to the wheel and the signal is lost
\* (co_routine.cpp:1127-1129 keep bTimeout).  A poll that was raised is on the
\* active list, and epoll watches the descriptor of every other; unless two
\* coroutines polled it at once: the second is not registered and the first to
\* return deletes the other's registration (967-980 and 1011).
WakersKept ==
  \A c \in Cos \ {Top} :
    /\ wait[c] = "cond" /\ ~Contains(cond, c)
         => Contains(active, c) \/ c \in overtaken
    /\ wait[c] = "poll" =>
         IF detach[c] THEN Contains(active, c)
                      ELSE interest[pollFd[c]] = c \/ pollFd[c] \in contested

\* A wait with a deadline ends.
WaitsEnd ==
  \A c \in Cos : (wait[c] \in {"poll", "cond"} /\ expire[c] <= MaxNow)
                   ~> (wait[c] \notin {"poll", "cond"} \/ vacated # {})
=============================================================================
