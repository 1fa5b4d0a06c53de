--------------------------- MODULE FdEventsProofs ---------------------------
(***************************************************************************)
(* Proofs about the event table, FdEvents, and about connect_with_timeout, *)
(* HookConnect, whose fibers wait in it.                                   *)
(*                                                                         *)
(* About FdEvents, for any descriptors, waiters and workers: the           *)
(* types, that a waiter is woken at most once, that m_pendingEventCount is *)
(* the number of registered events, that no edge is lost, that only a      *)
(* table that has changed since epoll_wait fails an assertion, and the     *)
(* states a waiter goes through.                                           *)
(*                                                                         *)
(* That no edge is lost, and which assertions fail, needs a relation       *)
(* between the table and epoll (Watch): what epoll watches is registered,  *)
(* and is all that is registered unless the descriptor was closed with an  *)
(* event in the table.  WokenOnce counts slots; its inductive form         *)
(* (OneSlot, Waits) compares them.                                         *)
(*                                                                         *)
(* About HookConnect, for any fibers: the types, that connect() does not   *)
(* report a connection that is not there, and that no fiber is forgotten   *)
(* in it.  ConnectTruth speaks of calls that have returned.  What makes it *)
(* so is said of the calls under way (Decided): a fiber that was woken,    *)
(* and is about to ask for SO_ERROR, has a connection attempt that is      *)
(* over, unless its timer marked the call or the descriptor was closed     *)
(* first, and a refusal stays in SO_ERROR until the fiber asks; but for    *)
(* the calls that other users of the socket lead astray.  That close()     *)
(* forgets nobody but in its own gap needs the registrations that no       *)
(* close() has overtaken (ConnectKept).                                    *)
(***************************************************************************)
EXTENDS FdEvents, HookConnect, FiniteSetTheorems, TLAPS

TableTypes ==
  /\ events \in [Fds -> SUBSET Event]
  /\ ctx \in [Slots -> Waiters \cup {NoWaiter}]
  /\ woken \in [Waiters -> Nat] /\ used \subseteq Waiters

(* No waiter is in two slots.                                              *)
OneSlot ==
  \A fd, gd \in Fds, e, f \in Event :
    ctx[<<fd, e>>] = ctx[<<gd, f>>] /\ ctx[<<fd, e>>] # NoWaiter
      => fd = gd /\ e = f

(* A waiter in a slot has not been woken, nobody is woken twice, and one   *)
(* that addEvent has not been called with not at all.                      *)
Waits ==
  /\ \A fd \in Fds, e \in Event :
       ctx[<<fd, e>>] # NoWaiter
         => ctx[<<fd, e>>] \in used /\ woken[ctx[<<fd, e>>]] = 0
  /\ \A x \in Waiters : woken[x] <= 1 /\ (x \notin used => woken[x] = 0)

(* A slot is taken exactly while its event is registered.                  *)
Taken ==
  \A fd \in Fds, e \in Event : e \in events[fd] <=> ctx[<<fd, e>>] # NoWaiter

Table == TableTypes /\ OneSlot /\ Waits /\ Taken /\ PendingAgrees

EpollEvents == [fd : Fds, revents : SUBSET Condition, right : BOOLEAN]

KernelTypes ==
  /\ closing \cup orphaned \subseteq Fds
  /\ interest \in [Fds -> SUBSET Event] /\ cond \in [Fds -> SUBSET Condition]
  /\ ready \subseteq Fds
  /\ batch \in [Workers -> SUBSET EpollEvents]
  /\ aborted \in {"no", "stale", "fresh"}

(* What epoll watches is registered; it watches all that is, unless the    *)
(* descriptor was closed with an event in the table.                       *)
Watch ==
  \A fd \in Fds :
    /\ interest[fd] \subseteq events[fd]
    /\ fd \notin orphaned /\ CanCall => interest[fd] = events[fd]

(* What epoll_wait returned was registered then.                           *)
Batches == \A w \in Workers : \A ev \in batch[w] : ev.right = TRUE

IndInv == /\ Table /\ KernelTypes /\ Watch /\ Batches
          /\ AssertionsHold /\ NoLostEdge

-----------------------------------------------------------------------------
(* What Remove does to a slot.                                             *)
Emptied(fd, evs) ==
  \A gd \in Fds, e \in Event :
    ctx'[<<gd, e>>] = IF gd = fd /\ e \in evs THEN NoWaiter
                      ELSE ctx[<<gd, e>>]

LEMMA RemoveSlots ==
  ASSUME NEW fd \in Fds, NEW evs \in SUBSET Event, TableTypes, Remove(fd, evs)
  PROVE  Emptied(fd, evs)
<1>1. ASSUME NEW gd \in Fds, NEW e \in Event
      PROVE  ctx'[<<gd, e>>] = IF gd = fd /\ e \in evs THEN NoWaiter
                               ELSE ctx[<<gd, e>>]
  <2>1. <<gd, e>> \in Slots
    BY DEF Slots
  <2>2. <<gd, e>> \in {fd} \X evs <=> gd = fd /\ e \in evs
    OBVIOUS
  <2>3. ctx'[<<gd, e>>] = IF <<gd, e>> \in {fd} \X evs THEN NoWaiter
                          ELSE ctx[<<gd, e>>]
    BY <2>1 DEF Remove
  <2> QED
    BY <2>2, <2>3
<1> QED
  BY <1>1 DEF Emptied

LEMMA EventFinite == IsFiniteSet(Event)
<1>1. IsFiniteSet({"READ"} \cup {"WRITE"})
  BY FS_AddElement, FS_Singleton
<1>2. Event = {"READ"} \cup {"WRITE"}
  BY DEF Event
<1> QED
  BY <1>1, <1>2

(* The slots whose event is registered.                                    *)
RegisteredSlots == {s \in Slots : s[2] \in events[s[1]]}

LEMMA SlotsFinite ==
  IsFiniteSet(Slots) /\ IsFiniteSet(RegisteredSlots)
    /\ IsFiniteSet(RegisteredSlots')
<1>1. IsFiniteSet(Slots)
  BY EventFinite, SetsAssumption, FS_Product DEF Slots
<1> QED
  BY <1>1, FS_Subset DEF RegisteredSlots

(* m_pendingEventCount is lowered by as many events as leave the table.    *)
LEMMA RemoveCounts ==
  ASSUME NEW fd \in Fds, NEW evs \in SUBSET Event, Table,
         evs \subseteq events[fd], Remove(fd, evs)
  PROVE  PendingAgrees'
<1> DEFINE Gone == {fd} \X evs
<1>1. RegisteredSlots' = RegisteredSlots \ Gone
  BY DEF RegisteredSlots, Slots, Remove, Table, TableTypes
<1>2. RegisteredSlots \cap Gone = Gone
  BY DEF RegisteredSlots, Slots, Table, TableTypes
<1>3. IsFiniteSet(evs) /\ IsFiniteSet({fd}) /\ Cardinality({fd}) = 1
  BY EventFinite, FS_Subset, FS_Singleton
<1>4. Cardinality(Gone) = Cardinality({fd}) * Cardinality(evs)
      /\ IsFiniteSet(Gone)
  BY <1>3, FS_Product
<1>5. Cardinality(evs) \in Nat
  BY <1>3, FS_CardinalityType
<1>6. Cardinality(Gone) = Cardinality(evs)
  BY <1>3, <1>4, <1>5
<1> HIDE DEF Gone
<1>7. Cardinality(RegisteredSlots')
        = Cardinality(RegisteredSlots) - Cardinality(evs)
  <2>1. Cardinality(RegisteredSlots \ Gone)
          = Cardinality(RegisteredSlots) - Cardinality(RegisteredSlots \cap Gone)
    BY SlotsFinite, FS_Difference
  <2> QED
    BY <1>1, <1>2, <1>6, <2>1
<1>8. pending = Cardinality(RegisteredSlots)
  BY DEF Table, PendingAgrees, RegisteredSlots
<1> QED
  BY <1>7, <1>8 DEF Remove, PendingAgrees, RegisteredSlots

(* Waiters that leave the table, woken or not, keep what holds of it.      *)
LEMMA RemoveKeepsTable ==
  ASSUME NEW fd \in Fds, NEW evs \in SUBSET Event, Table,
         evs \subseteq events[fd], Remove(fd, evs),
         Wake(fd, evs) \/ UNCHANGED woken
  PROVE  Table'
<1>1. PendingAgrees'
  BY RemoveCounts
<1>2. \A gd \in Fds, e \in Event :
        ctx'[<<gd, e>>] = IF gd = fd /\ e \in evs THEN NoWaiter
                          ELSE ctx[<<gd, e>>]
  <2>1. TableTypes
    BY DEF Table
  <2>2. Emptied(fd, evs)
    BY <2>1, RemoveSlots
  <2> QED
    BY <2>2 DEF Emptied
<1>3. used' = used /\ events' = [events EXCEPT ![fd] = @ \ evs]
  BY DEF Remove
<1>4. ASSUME NEW x \in Waiters
      PROVE  \/ woken'[x] = woken[x]
             \/ /\ woken'[x] = woken[x] + 1
                /\ \E e \in evs : ctx[<<fd, e>>] = x
  <2>1. CASE Wake(fd, evs)
    <3> DEFINE Its == {e \in evs : ctx[<<fd, e>>] = x}
    <3>1. woken'[x] = woken[x] + Cardinality(Its)
      BY <2>1 DEF Wake
    <3>2. CASE Its = {}
      <4>1. Cardinality(Its) = 0 /\ woken[x] \in Nat
        BY <3>2, FS_EmptySet DEF Table, TableTypes
      <4> QED
        BY <3>1, <4>1
    <3>3. CASE Its # {}
      <4>1. PICK e \in evs : ctx[<<fd, e>>] = x
        BY <3>3
      <4>2. \A f \in evs : ctx[<<fd, f>>] = x => f = e
        BY <4>1, WaitersAssumption DEF Table, OneSlot
      <4>3. Its = {e}
        BY <4>1, <4>2
      <4>4. Cardinality(Its) = 1
        BY <4>3, FS_Singleton
      <4> QED
        BY <3>1, <4>1, <4>4
    <3> QED
      BY <3>2, <3>3
  <2>2. CASE UNCHANGED woken
    BY <2>2
  <2> QED
    BY <2>1, <2>2
<1>5. TableTypes'
  <2>1. ctx' \in [Slots -> Waiters \cup {NoWaiter}]
    BY DEF Remove, Table, TableTypes
  <2>2. woken' \in [Waiters -> Nat]
    <3>1. woken' = [x \in Waiters |-> woken'[x]]
      BY DEF Wake, Table, TableTypes
    <3>2. \A x \in Waiters : woken'[x] \in Nat
      BY <1>4 DEF Table, TableTypes
    <3> QED
      BY <3>1, <3>2
  <2> QED
    BY <1>3, <2>1, <2>2 DEF Table, TableTypes
<1>6. OneSlot'
  BY <1>2 DEF Table, OneSlot
<1>7. Taken'
  BY <1>2, <1>3 DEF Table, TableTypes, Taken
<1>8. Waits'
  <2>1. ASSUME NEW x \in Waiters
        PROVE  woken'[x] <= 1 /\ (x \notin used' => woken'[x] = 0)
    <3>1. CASE woken'[x] = woken[x]
      BY <1>3, <3>1 DEF Table, Waits
    <3>2. ASSUME woken'[x] = woken[x] + 1,
                 NEW e \in evs, ctx[<<fd, e>>] = x
          PROVE  woken'[x] <= 1 /\ (x \notin used' => woken'[x] = 0)
      <4>1. x \in used /\ woken[x] = 0
        BY <3>2, WaitersAssumption DEF Table, Waits
      <4> QED
        BY <1>3, <3>2, <4>1
    <3> QED
      BY <1>4, <3>1, <3>2
  <2>2. ASSUME NEW gd \in Fds, NEW e \in Event, ctx'[<<gd, e>>] # NoWaiter
        PROVE  ctx'[<<gd, e>>] \in used' /\ woken'[ctx'[<<gd, e>>]] = 0
    <3>1. ctx'[<<gd, e>>] = ctx[<<gd, e>>] /\ ~ (gd = fd /\ e \in evs)
      BY <1>2, <2>2
    <3>2. ctx[<<gd, e>>] \in used /\ ctx[<<gd, e>>] \in Waiters
          /\ woken[ctx[<<gd, e>>]] = 0
      BY <2>2, <3>1 DEF Table, TableTypes, Waits
    <3>3. ~ \E f \in evs : ctx[<<fd, f>>] = ctx[<<gd, e>>]
      <4>1. ASSUME NEW f \in evs, ctx[<<fd, f>>] = ctx[<<gd, e>>]
            PROVE  FALSE
        <5>1. f \in Event /\ ctx[<<gd, e>>] # NoWaiter
          BY <2>2, <3>1
        <5>2. gd = fd /\ e = f
          BY <4>1, <5>1 DEF Table, OneSlot
        <5> QED
          BY <3>1, <5>2
      <4> QED
        BY <4>1
    <3> QED
      BY <1>3, <1>4, <3>1, <3>2, <3>3
  <2> QED
    BY <2>1, <2>2 DEF Waits
<1> QED
  BY <1>1, <1>5, <1>6, <1>7, <1>8 DEF Table

(* A waiter that addEvent registers keeps it, too.                         *)
LEMMA AddKeepsTable ==
  ASSUME NEW fd \in Fds, NEW e \in Event, NEW x \in Waiters, Table,
         addEvent(fd, e, x)
  PROVE  Table' /\ aborted' = aborted
<1>1. ctx[<<fd, e>>] = NoWaiter /\ e \notin events[fd] /\ <<fd, e>> \in Slots
  BY DEF addEvent, Table, Taken, Slots
<1>2. /\ ctx' = [ctx EXCEPT ![<<fd, e>>] = x] /\ aborted' = aborted
      /\ events' = [events EXCEPT ![fd] = @ \cup {e}]
      /\ used' = used \cup {x} /\ woken' = woken /\ pending' = pending + 1
      /\ x \notin used
  BY <1>1 DEF addEvent
<1>3. \A gd \in Fds, f \in Event :
        ctx'[<<gd, f>>] = IF gd = fd /\ f = e THEN x ELSE ctx[<<gd, f>>]
  BY <1>1, <1>2 DEF Table, TableTypes, Slots
<1>4. TableTypes'
  BY <1>1, <1>2 DEF Table, TableTypes
<1>5. OneSlot'
  <2>1. ASSUME NEW gd \in Fds, NEW f \in Event, ~ (gd = fd /\ f = e)
        PROVE  ctx'[<<gd, f>>] = ctx[<<gd, f>>] /\ ctx[<<gd, f>>] # x
    BY <1>2, <1>3, <2>1, WaitersAssumption DEF Table, Waits
  <2> QED
    BY <1>3, <2>1 DEF Table, OneSlot
<1>6. Waits'
  <2>1. woken[x] = 0
    BY <1>2 DEF Table, Waits
  <2> QED
    BY <1>2, <1>3, <2>1 DEF Table, Waits
<1>7. Taken'
  <2>1. ASSUME NEW gd \in Fds, NEW f \in Event
        PROVE  f \in events'[gd] <=> ctx'[<<gd, f>>] # NoWaiter
    <3>1. CASE gd = fd /\ f = e
      <4>1. f \in events'[gd]
        BY <1>2, <3>1 DEF Table, TableTypes
      <4>2. ctx'[<<gd, f>>] = x
        BY <1>3, <3>1
      <4> QED
        BY <4>1, <4>2, WaitersAssumption
    <3>2. CASE ~ (gd = fd /\ f = e)
      <4>1. f \in events'[gd] <=> f \in events[gd]
        BY <1>2, <3>2 DEF Table, TableTypes
      <4>2. ctx'[<<gd, f>>] = ctx[<<gd, f>>]
        BY <1>3, <3>2
      <4> QED
        BY <4>1, <4>2 DEF Table, Taken
    <3> QED
      BY <3>1, <3>2
  <2> QED
    BY <2>1 DEF Taken
<1>8. PendingAgrees'
  <2>1. RegisteredSlots' = RegisteredSlots \cup {<<fd, e>>}
    BY <1>1, <1>2 DEF RegisteredSlots, Slots, Table, TableTypes
  <2>2. <<fd, e>> \notin RegisteredSlots
    BY <1>1 DEF RegisteredSlots
  <2>3. Cardinality(RegisteredSlots') = Cardinality(RegisteredSlots) + 1
    BY <2>1, <2>2, SlotsFinite, FS_AddElement
  <2>4. pending = Cardinality(RegisteredSlots)
    BY DEF Table, PendingAgrees, RegisteredSlots
  <2> QED
    BY <1>2, <2>3, <2>4 DEF PendingAgrees, RegisteredSlots
<1> QED
  BY <1>2, <1>4, <1>5, <1>6, <1>7, <1>8 DEF Table

-----------------------------------------------------------------------------
(* epoll_ctl changes the interest of one descriptor, which is then ready   *)
(* if a condition that is asked for holds.                                 *)
LEMMA CtlEffect ==
  ASSUME NEW fd \in Fds, NEW mask \in SUBSET Event, KernelTypes,
         epoll_ctl(fd, mask)
  PROVE  /\ interest' \in [Fds -> SUBSET Event] /\ cond' = cond
         /\ ready' \subseteq Fds
         /\ interest'[fd] = mask
         /\ \A e \in mask : e \in cond[fd] => fd \in ready'
         /\ \A gd \in Fds : gd # fd => /\ interest'[gd] = interest[gd]
                                       /\ gd \in ready => gd \in ready'
<1>1. interest' = [interest EXCEPT ![fd] = mask]
  BY DEF epoll_ctl
<1>2. ready' \subseteq Fds
      /\ \A gd \in Fds : gd # fd /\ gd \in ready => gd \in ready'
  BY DEF epoll_ctl, KernelTypes
<1>3. \A e \in mask : e \in cond[fd] => fd \in ready'
  BY DEF epoll_ctl, Asked
<1> QED
  BY <1>1, <1>2, <1>3 DEF epoll_ctl, KernelTypes

(* A call that tells epoll what is left in the table: addEvent, delEvent,  *)
(* cancelEvent and cancelAll.                                              *)
LEMMA CallInductive ==
  ASSUME NEW fd \in Fds, NEW mask \in SUBSET Event, IndInv, Table',
         epoll_ctl(fd, mask), events' = [events EXCEPT ![fd] = mask],
         closing' \subseteq Fds, UNCHANGED <<orphaned, batch, aborted>>
  PROVE  IndInv'
<1>1. /\ interest' \in [Fds -> SUBSET Event] /\ cond' = cond
      /\ ready' \subseteq Fds
      /\ interest'[fd] = mask
      /\ \A e \in mask : e \in cond[fd] => fd \in ready'
      /\ \A gd \in Fds : gd # fd => /\ interest'[gd] = interest[gd]
                                    /\ gd \in ready => gd \in ready'
  BY CtlEffect DEF IndInv
<1>2. events'[fd] = mask
      /\ \A gd \in Fds : gd # fd => events'[gd] = events[gd]
  BY DEF IndInv, Table, TableTypes
<1>3. KernelTypes'
  BY <1>1 DEF IndInv, KernelTypes
<1>4. Watch'
  <2>1. ASSUME NEW gd \in Fds
        PROVE  /\ interest'[gd] \subseteq events'[gd]
               /\ gd \notin orphaned /\ CanCall => interest'[gd] = events'[gd]
    <3>1. CASE gd = fd
      BY <1>1, <1>2, <3>1
    <3>2. CASE gd # fd
      <4>1. interest'[gd] = interest[gd]
        BY <1>1, <3>2
      <4>2. events'[gd] = events[gd]
        BY <1>2, <3>2
      <4> QED
        BY <4>1, <4>2 DEF IndInv, Watch
    <3> QED
      BY <3>1, <3>2
  <2> QED
    BY <2>1 DEF Watch, CanCall
<1>5. Batches' /\ AssertionsHold'
  BY DEF IndInv, Batches, AssertionsHold
<1>6. NoLostEdge'
  <2>1. ASSUME NEW gd \in Fds \ orphaned, NEW e \in events'[gd],
               e \in cond[gd], CanCall
        PROVE  \/ gd \in ready'
               \/ \E w \in Workers : \E ev \in batch[w] :
                    ev.fd = gd /\ {e, "ERR"} \cap ev.revents # {}
    <3>1. CASE gd = fd
      BY <1>1, <1>2, <2>1, <3>1
    <3>2. CASE gd # fd
      <4>1. e \in events[gd]
        BY <1>2, <3>2
      <4>2. gd \in ready => gd \in ready'
        BY <1>1, <3>2
      <4> QED
        BY <2>1, <4>1, <4>2 DEF IndInv, NoLostEdge
    <3> QED
      BY <3>1, <3>2
  <2> QED
    BY <1>1, <2>1 DEF NoLostEdge, CanCall
<1> QED
  BY <1>3, <1>4, <1>5, <1>6 DEF IndInv

(* The initial state satisfies the inductive invariant.                    *)
LEMMA InitInductive == Init => IndInv
<1> SUFFICES ASSUME Init PROVE IndInv
  OBVIOUS
<1>1. PendingAgrees
  <2>1. RegisteredSlots = {}
    BY DEF Init, RegisteredSlots, Slots
  <2> QED
    BY <2>1, FS_EmptySet DEF Init, PendingAgrees, RegisteredSlots
<1>2. \A fd \in Fds, e \in Event : ctx[<<fd, e>>] = NoWaiter
  BY DEF Init, Slots
<1>3. Table
  <2>1. TableTypes
    BY DEF Init, TableTypes
  <2> QED
    BY <1>1, <1>2, <2>1 DEF Init, Table, OneSlot, Waits, Taken
<1> QED
  BY <1>3 DEF Init, IndInv, KernelTypes, Watch, Batches, AssertionsHold,
     NoLostEdge

-----------------------------------------------------------------------------
(* The calls keep the invariant.                                           *)
LEMMA CallsInductive ==
  ASSUME IndInv, NEW fd \in Fds, Call(fd)
  PROVE  IndInv'
<1>0. events[fd] \subseteq Event /\ closing \subseteq Fds
  BY DEF IndInv, Table, TableTypes, KernelTypes
<1>1. ASSUME NEW e \in Event, NEW x \in Waiters, addEvent(fd, e, x)
      PROVE  IndInv'
  <2>1. Table' /\ aborted' = aborted
    BY <1>1, AddKeepsTable DEF IndInv
  <2>2. /\ epoll_ctl(fd, events[fd] \cup {e})
        /\ events' = [events EXCEPT ![fd] = events[fd] \cup {e}]
        /\ closing' = closing /\ UNCHANGED <<orphaned, batch>>
    BY <1>1 DEF addEvent, closeVars
  <2> QED
    BY <1>0, <2>1, <2>2, CallInductive
<1>2. ASSUME NEW evs \in SUBSET Event, evs \subseteq events[fd],
             epoll_ctl(fd, events[fd] \ evs), Remove(fd, evs),
             Wake(fd, evs) \/ UNCHANGED woken, closing' \subseteq Fds,
             UNCHANGED <<orphaned, batch, aborted>>
      PROVE  IndInv'
  <2>1. Table'
    BY <1>2, RemoveKeepsTable DEF IndInv
  <2>2. events' = [events EXCEPT ![fd] = events[fd] \ evs]
    BY <1>2 DEF Remove
  <2> QED
    BY <1>0, <1>2, <2>1, <2>2, CallInductive
<1>3. ASSUME NEW e \in Event, delEvent(fd, e) PROVE IndInv'
  BY <1>0, <1>2, <1>3 DEF delEvent, closeVars
<1>4. ASSUME NEW e \in Event, cancelEvent(fd, e) PROVE IndInv'
  BY <1>0, <1>2, <1>4 DEF cancelEvent, closeVars
<1>5. ASSUME cancelAll(fd), closing' \subseteq Fds,
             UNCHANGED <<orphaned, batch, aborted>>
      PROVE  IndInv'
  <2>1. events[fd] \ events[fd] = {}
    OBVIOUS
  <2> QED
    BY <1>0, <1>2, <1>5, <2>1 DEF cancelAll
<1>6. CASE CancelAll(fd)
  BY <1>0, <1>5, <1>6 DEF CancelAll, closeVars
<1>7. CASE CloseBegin(fd)
  <2>1. closing' \subseteq Fds /\ UNCHANGED <<orphaned, batch, aborted>>
    BY <1>0, <1>7 DEF CloseBegin
  <2>2. CASE cancelAll(fd)
    BY <1>5, <2>1, <2>2
  <2>3. CASE UNCHANGED <<tableVars, kernelVars>>
    BY <2>1, <2>3 DEF IndInv, Table, TableTypes, OneSlot, Waits, Taken,
       PendingAgrees, KernelTypes, Watch, Batches, AssertionsHold, NoLostEdge,
       CanCall, tableVars, kernelVars
  <2> QED
    BY <1>7, <2>2, <2>3 DEF CloseBegin
<1>8. CASE CloseEnd(fd)
  <2>1. Table'
    BY <1>8 DEF CloseEnd, tableVars, IndInv, Table, TableTypes, OneSlot, Waits,
       Taken, PendingAgrees
  <2>2. /\ interest' = [interest EXCEPT ![fd] = {}]
        /\ cond' = [cond EXCEPT ![fd] = {}] /\ ready' = ready \ {fd}
        /\ events' = events /\ batch' = batch /\ aborted' = aborted
        /\ orphaned' = IF events[fd] = {} THEN orphaned ELSE orphaned \cup {fd}
        /\ closing' = closing \ {fd}
    BY <1>8 DEF CloseEnd, tableVars
  <2>3. KernelTypes'
    BY <2>2 DEF IndInv, KernelTypes
  <2>4. Watch'
    BY <2>2 DEF IndInv, Watch, CanCall, KernelTypes
  <2>5. Batches' /\ AssertionsHold'
    BY <2>2 DEF IndInv, Batches, AssertionsHold
  <2>6. NoLostEdge'
    BY <2>2 DEF IndInv, NoLostEdge, CanCall, KernelTypes
  <2> QED
    BY <2>1, <2>3, <2>4, <2>5, <2>6 DEF IndInv
<1> QED
  BY <1>1, <1>3, <1>4, <1>6, <1>7, <1>8 DEF Call

(* Conditions that arise and pass keep it: epoll puts on the ready list    *)
(* what it watches, which is what is registered.                           *)
LEMMA EnvironmentInductive ==
  ASSUME IndInv, NEW fd \in Fds, Environment(fd)
  PROVE  IndInv'
<1>1. /\ UNCHANGED <<tableVars, interest, closeVars, batch, aborted>>
      /\ cond' \in [Fds -> SUBSET Condition]
      /\ ready \subseteq ready' /\ ready' \subseteq Fds
  BY DEF Environment, Arises, Passes, IndInv, KernelTypes
<1>2. Table'
  BY <1>1 DEF tableVars, IndInv, Table, TableTypes, OneSlot, Waits, Taken,
     PendingAgrees
<1>3. KernelTypes' /\ Watch' /\ Batches' /\ AssertionsHold'
  BY <1>1 DEF tableVars, closeVars, IndInv, KernelTypes, Watch, Batches,
     AssertionsHold, CanCall
<1>4. ASSUME NEW gd \in Fds \ orphaned, NEW e \in events[gd],
             e \in cond'[gd], CanCall
      PROVE  \/ gd \in ready'
             \/ \E w \in Workers : \E ev \in batch[w] :
                  ev.fd = gd /\ {e, "ERR"} \cap ev.revents # {}
  <2>1. CASE e \in cond[gd]
    BY <1>1, <1>4, <2>1 DEF IndInv, NoLostEdge
  <2>2. CASE e \notin cond[gd]
    <3>1. gd = fd /\ Arises(fd, e)
      BY <1>4, <2>2 DEF Environment, Arises, Passes, IndInv, KernelTypes
    <3>2. e \in interest[gd]
      BY <1>4 DEF IndInv, Watch
    <3> QED
      BY <3>1, <3>2 DEF Arises, Asked
  <2> QED
    BY <2>1, <2>2
<1>5. NoLostEdge'
  BY <1>1, <1>4 DEF NoLostEdge, CanCall, tableVars, closeVars
<1> QED
  BY <1>2, <1>3, <1>5 DEF IndInv

(* What epoll_wait takes off the ready list is in the hands of the worker. *)
LEMMA WaitInductive ==
  ASSUME IndInv, NEW w \in Workers, epoll_wait(w)
  PROVE  IndInv'
<1> DEFINE revents(fd) == cond[fd] \cap Asked(interest[fd])
           Seen == {[fd |-> fd, revents |-> revents(fd),
                     right |-> revents(fd) \cap Event \subseteq events[fd]] :
                      fd \in ready}
           New == {ev \in Seen : ev.revents # {}}
<1>1. /\ batch' = [batch EXCEPT ![w] = New] /\ batch[w] = {}
      /\ ready' = {}
      /\ UNCHANGED <<tableVars, interest, cond, closeVars, aborted>>
  BY DEF epoll_wait
<1>2. \A fd \in ready : revents(fd) \cap Event \subseteq events[fd]
  BY DEF IndInv, KernelTypes, Watch, Asked, Event
<1>3. Seen = {[fd |-> fd, revents |-> revents(fd), right |-> TRUE] : fd \in ready}
  BY <1>2
<1>4. New \subseteq EpollEvents /\ \A ev \in New : ev.right = TRUE
  <2>1. ASSUME NEW ev \in Seen
        PROVE  ev \in EpollEvents /\ ev.right = TRUE
    <3>1. PICK fd \in ready :
            ev = [fd |-> fd, revents |-> revents(fd), right |-> TRUE]
      BY <1>3, <2>1
    <3>2. fd \in Fds /\ revents(fd) \in SUBSET Condition
      BY DEF IndInv, KernelTypes
    <3> QED
      BY <3>1, <3>2 DEF EpollEvents
  <2> QED
    BY <2>1
<1>5. ASSUME NEW fd \in ready, revents(fd) # {}
      PROVE  \E ev \in New : ev.fd = fd /\ ev.revents = revents(fd)
  <2> DEFINE ev == [fd |-> fd, revents |-> revents(fd), right |-> TRUE]
  <2>1. ev \in Seen /\ ev.fd = fd /\ ev.revents = revents(fd)
    BY <1>3
  <2> QED
    BY <1>5, <2>1
<1>6. Table'
  BY <1>1 DEF tableVars, IndInv, Table, TableTypes, OneSlot, Waits, Taken,
     PendingAgrees
<1> HIDE DEF Seen, New
<1>7. KernelTypes'
  BY <1>1, <1>4 DEF closeVars, IndInv, KernelTypes
<1>8. Watch' /\ AssertionsHold'
  BY <1>1 DEF tableVars, closeVars, IndInv, Watch, AssertionsHold, CanCall
<1>9. Batches'
  BY <1>1, <1>4 DEF IndInv, KernelTypes, Batches
<1>10. ASSUME NEW gd \in Fds \ orphaned, NEW e \in events[gd],
              e \in cond[gd], CanCall
       PROVE  \E v \in Workers : \E ev \in batch'[v] :
                ev.fd = gd /\ {e, "ERR"} \cap ev.revents # {}
  <2>1. CASE gd \in ready
    <3>1. e \in revents(gd)
      BY <1>10 DEF IndInv, Watch, Asked
    <3>2. PICK ev \in New : ev.fd = gd /\ ev.revents = revents(gd)
      BY <1>5, <2>1, <3>1
    <3>3. batch'[w] = New
      BY <1>1 DEF IndInv, KernelTypes
    <3> QED
      BY <3>1, <3>2, <3>3
  <2>2. CASE gd \notin ready
    <3>1. PICK v \in Workers : \E ev \in batch[v] :
            ev.fd = gd /\ {e, "ERR"} \cap ev.revents # {}
      BY <1>10, <2>2 DEF IndInv, NoLostEdge
    <3>2. batch'[v] = batch[v]
      BY <1>1, <3>1 DEF IndInv, KernelTypes
    <3> QED
      BY <3>1, <3>2
  <2> QED
    BY <2>1, <2>2
<1>11. NoLostEdge'
  BY <1>1, <1>10 DEF NoLostEdge, CanCall, tableVars, closeVars
<1> QED
  BY <1>6, <1>7, <1>8, <1>9, <1>11 DEF IndInv

(* One iteration of idle(): the epoll_event is dropped only when none of   *)
(* its events is registered, and what stays registered is asked for again. *)
LEMMA ProcessInductive ==
  ASSUME IndInv, NEW w \in Workers, NEW ev \in batch[w], Process(w, ev)
  PROVE  IndInv'
<1> DEFINE fd == ev.fd
           real == RealEvents(ev)
<1>1. /\ ev \in EpollEvents /\ fd \in Fds /\ ev.revents \subseteq Condition
      /\ ev.right = TRUE /\ events[fd] \subseteq Event
      /\ real \subseteq Event
  BY DEF IndInv, Table, TableTypes, KernelTypes, Batches, EpollEvents,
     RealEvents
<1>2. /\ batch' = [batch EXCEPT ![w] = @ \ {ev}]
      /\ UNCHANGED closeVars
  BY DEF Process
<1>3. /\ batch' \in [Workers -> SUBSET EpollEvents]
      /\ \A v \in Workers : batch'[v] \subseteq batch[v]
      /\ \A v \in Workers : \A x \in batch[v] : x # ev => x \in batch'[v]
  BY <1>2 DEF IndInv, KernelTypes
<1>4. Batches'
  BY <1>3 DEF IndInv, Batches
<1>5. closing' \cup orphaned' \subseteq Fds /\ orphaned' = orphaned
  BY <1>2 DEF closeVars, IndInv, KernelTypes
<1>6. CASE events[fd] \cap real = {} \/ ~DelOpFits(fd)
  <2>1. UNCHANGED <<tableVars, kernelVars, aborted>>
    BY <1>6 DEF Process
  <2>2. Table' /\ KernelTypes' /\ Watch' /\ AssertionsHold'
    BY <1>2, <1>3, <1>5, <2>1 DEF tableVars, kernelVars, IndInv, Table,
       TableTypes, OneSlot, Waits, Taken, PendingAgrees, KernelTypes, Watch,
       AssertionsHold, CanCall
  <2>3. ASSUME NEW gd \in Fds \ orphaned, NEW e \in events[gd],
               e \in cond[gd], CanCall, gd \notin ready
        PROVE  \E v \in Workers : \E x \in batch'[v] :
                 x.fd = gd /\ {e, "ERR"} \cap x.revents # {}
    <3>0. PICK v \in Workers : \E x \in batch[v] :
            x.fd = gd /\ {e, "ERR"} \cap x.revents # {}
      BY <2>3 DEF IndInv, NoLostEdge
    <3>1. PICK x \in batch[v] : x.fd = gd /\ {e, "ERR"} \cap x.revents # {}
      BY <3>0
    <3>2. x # ev
      <4>1. SUFFICES ASSUME x = ev PROVE FALSE
        OBVIOUS
      <4>2. e \in real /\ gd = fd
        BY <1>1, <3>1, <4>1 DEF RealEvents
      <4>3. interest[fd] # {}
        BY <2>3, <4>2 DEF IndInv, Watch
      <4> QED
        BY <1>6, <4>2, <4>3 DEF DelOpFits
    <3> QED
      BY <1>3, <3>1, <3>2
  <2>4. NoLostEdge'
    BY <1>5, <2>1, <2>3 DEF NoLostEdge, CanCall, tableVars, kernelVars
  <2> QED
    BY <1>4, <2>2, <2>4 DEF IndInv
<1>7. CASE ~ (events[fd] \cap real = {} \/ ~DelOpFits(fd))
  <2>1. /\ epoll_ctl(fd, events[fd] \ real)
        /\ IF real \subseteq events[fd]
           THEN Remove(fd, real) /\ Wake(fd, real) /\ UNCHANGED aborted
           ELSE aborted' = "stale" /\ UNCHANGED tableVars
    BY <1>1, <1>7 DEF Process, Blame
  <2>2. events[fd] \ real \in SUBSET Event /\ KernelTypes
    BY <1>1 DEF IndInv
  <2>3. /\ interest' \in [Fds -> SUBSET Event] /\ cond' = cond
        /\ ready' \subseteq Fds
        /\ interest'[fd] = events[fd] \ real
        /\ \A e \in events[fd] \ real : e \in cond[fd] => fd \in ready'
        /\ \A gd \in Fds : gd # fd => interest'[gd] = interest[gd]
        /\ \A gd \in Fds : gd # fd /\ gd \in ready => gd \in ready'
    BY <1>1, <2>1, <2>2, CtlEffect
  <2>4. CASE real \subseteq events[fd]
    <3>1. Remove(fd, real) /\ Wake(fd, real) /\ aborted' = aborted
      BY <2>1, <2>4
    <3>2. Table'
      BY <1>1, <2>4, <3>1, RemoveKeepsTable DEF IndInv
    <3>3. events'[fd] = events[fd] \ real
          /\ \A gd \in Fds : gd # fd => events'[gd] = events[gd]
      BY <1>1, <3>1 DEF Remove, IndInv, Table, TableTypes
    <3>4. KernelTypes' /\ AssertionsHold'
      BY <1>3, <1>5, <2>3, <3>1 DEF IndInv, KernelTypes, AssertionsHold
    <3>5. Watch'
      <4>1. ASSUME NEW gd \in Fds
            PROVE  /\ interest'[gd] \subseteq events'[gd]
                   /\ gd \notin orphaned /\ CanCall
                        => interest'[gd] = events'[gd]
        <5>1. CASE gd = fd
          BY <2>3, <3>3, <5>1
        <5>2. CASE gd # fd
          BY <2>3, <3>3, <5>2 DEF IndInv, Watch
        <5> QED
          BY <5>1, <5>2
      <4> QED
        BY <1>5, <3>1, <4>1 DEF Watch, CanCall
    <3>6. ASSUME NEW gd \in Fds \ orphaned, NEW e \in events'[gd],
                 e \in cond[gd], CanCall, gd \notin ready'
          PROVE  \E v \in Workers : \E x \in batch'[v] :
                   x.fd = gd /\ {e, "ERR"} \cap x.revents # {}
      <4>1. gd # fd
        BY <2>3, <3>3, <3>6
      <4>2. e \in events[gd] /\ gd \notin ready
        BY <2>3, <3>3, <3>6, <4>1
      <4>3. PICK v \in Workers : \E x \in batch[v] :
              x.fd = gd /\ {e, "ERR"} \cap x.revents # {}
        BY <3>6, <4>2 DEF IndInv, NoLostEdge
      <4>4. PICK x \in batch[v] : x.fd = gd /\ {e, "ERR"} \cap x.revents # {}
        BY <4>3
      <4> QED
        BY <1>3, <4>1, <4>4
    <3>7. NoLostEdge'
      BY <1>5, <2>3, <3>1, <3>6 DEF NoLostEdge, CanCall
    <3> QED
      BY <1>4, <3>2, <3>4, <3>5, <3>7 DEF IndInv
  <2>5. CASE ~ (real \subseteq events[fd])
    <3>1. aborted' = "stale" /\ UNCHANGED tableVars
      BY <2>1, <2>5
    <3>2. Table'
      BY <3>1 DEF tableVars, IndInv, Table, TableTypes, OneSlot, Waits, Taken,
         PendingAgrees
    <3>3. KernelTypes' /\ AssertionsHold'
      BY <1>3, <1>5, <2>3, <3>1 DEF IndInv, KernelTypes, AssertionsHold
    <3>4. ASSUME NEW gd \in Fds PROVE interest'[gd] \subseteq events[gd]
      <4>1. CASE gd = fd
        BY <2>3, <4>1
      <4>2. CASE gd # fd
        BY <2>3, <4>2 DEF IndInv, Watch
      <4> QED
        BY <4>1, <4>2
    <3>5. Watch' /\ NoLostEdge'
      BY <3>1, <3>4 DEF Watch, NoLostEdge, CanCall, tableVars
    <3> QED
      BY <1>4, <3>2, <3>3, <3>5 DEF IndInv
  <2> QED
    BY <2>4, <2>5
<1> QED
  BY <1>6, <1>7

-----------------------------------------------------------------------------
LEMMA Inductive == Spec => []IndInv
<1>1. ASSUME IndInv, [Next]_vars PROVE IndInv'
  <2>1. CASE UNCHANGED vars
    BY <1>1, <2>1 DEF vars, tableVars, kernelVars, closeVars, IndInv, Table,
       TableTypes, OneSlot, Waits, Taken, PendingAgrees, KernelTypes, Watch,
       Batches, AssertionsHold, NoLostEdge, CanCall
  <2> QED
    BY <1>1, <2>1, CallsInductive, EnvironmentInductive, WaitInductive,
       ProcessInductive DEF Next, Idle
<1> QED
  BY InitInductive, <1>1, PTL DEF Spec

(* The type invariant: m_pendingEventCount is never below zero.            *)
THEOREM EventTypesHold == Spec => []TypeOK
<1>1. IndInv => TypeOK
  <2> SUFFICES ASSUME IndInv PROVE TypeOK
    OBVIOUS
  <2>1. pending \in Nat
    BY SlotsFinite, FS_CardinalityType DEF IndInv, Table, PendingAgrees,
       RegisteredSlots
  <2> QED
    BY <2>1 DEF IndInv, Table, TableTypes, KernelTypes, EpollEvents, TypeOK
<1> QED
  BY Inductive, <1>1, PTL

(* A waiter is in one slot or has left it for good, and is woken at most   *)
(* once, by epoll, cancelEvent or cancelAll.                               *)
THEOREM WokenOnceHolds == Spec => []WokenOnce
<1>1. ASSUME IndInv PROVE WokenOnce
  <2>1. ASSUME NEW x \in Waiters
        PROVE  Cardinality({s \in Slots : ctx[s] = x}) + woken[x] <= 1
    <3> DEFINE Its == {s \in Slots : ctx[s] = x}
    <3>1. CASE Its = {}
      <4>1. Cardinality(Its) = 0 /\ woken[x] \in Nat /\ woken[x] <= 1
        BY <1>1, <3>1, FS_EmptySet DEF IndInv, Table, TableTypes, Waits
      <4> QED
        BY <4>1
    <3>2. CASE Its # {}
      <4>1. PICK fd \in Fds, e \in Event : ctx[<<fd, e>>] = x
        BY <3>2 DEF Slots
      <4>2. Its = {<<fd, e>>}
        BY <1>1, <4>1, WaitersAssumption DEF IndInv, Table, OneSlot, Slots
      <4>3. Cardinality(Its) = 1
        BY <4>2, FS_Singleton
      <4>4. woken[x] = 0
        BY <1>1, <4>1, WaitersAssumption DEF IndInv, Table, Waits
      <4> QED
        BY <4>3, <4>4
    <3> QED
      BY <3>1, <3>2
  <2>2. ASSUME NEW x \in Waiters, x \notin used
        PROVE  ~Registered(x) /\ woken[x] = 0
    BY <1>1, <2>2, WaitersAssumption DEF IndInv, Table, Waits, Registered, Slots
  <2> QED
    BY <1>1, <2>1, <2>2 DEF IndInv, Table, Taken, WokenOnce
<1> QED
  BY Inductive, <1>1, PTL

(* m_pendingEventCount is the number of registered events.                 *)
THEOREM PendingAgreesHolds == Spec => []PendingAgrees
<1>1. IndInv => PendingAgrees
  BY DEF IndInv, Table
<1> QED
  BY Inductive, <1>1, PTL

(* An event that is registered and holds is on the ready list, or a worker *)
(* will find it, unless close() had an addEvent inside it.                 *)
THEOREM NoLostEdgeHolds == Spec => []NoLostEdge
<1>1. IndInv => NoLostEdge
  BY DEF IndInv
<1> QED
  BY Inductive, <1>1, PTL

(* The assertions of triggerEvent and addEvent fail only on an epoll_event *)
(* that was right when epoll_wait returned it.                             *)
THEOREM AssertionsHoldAlways == Spec => []AssertionsHold
<1>1. IndInv => AssertionsHold
  BY DEF IndInv
<1> QED
  BY Inductive, <1>1, PTL

-----------------------------------------------------------------------------
(* What a waiter goes through.                                             *)

Awaits(x) == IF Registered(x) THEN "waiting"
             ELSE IF woken[x] > 0 THEN "woken"
             ELSE IF x \in used THEN "deleted" ELSE "new"

(* A waiter is registered once and leaves the table once, for good: woken, *)
(* by whatever comes first, unless delEvent takes it out, which is the     *)
(* only way to leave without being woken.                                  *)
AwaitedOnce ==
  [][\A x \in Waiters :
       \/ Awaits(x)' = Awaits(x)
       \/ Awaits(x) = "new" /\ Awaits(x)' = "waiting"
       \/ Awaits(x) = "waiting" /\ Awaits(x)' = "woken"
       \/ /\ Awaits(x) = "waiting" /\ Awaits(x)' = "deleted"
          /\ \E fd \in Fds, e \in Event : delEvent(fd, e) /\ ctx[<<fd, e>>] = x]_vars

(* Wake counts those whose slot it looks at, and nobody else.              *)
LEMMA WakeCounts ==
  ASSUME NEW fd \in Fds, NEW evs \in SUBSET Event, Table, Wake(fd, evs), NEW x \in Waiters
  PROVE  /\ (\E e \in evs : ctx[<<fd, e>>] = x) => woken'[x] = woken[x] + 1
         /\ ~(\E e \in evs : ctx[<<fd, e>>] = x) => woken'[x] = woken[x]
<1> DEFINE Its == {e \in evs : ctx[<<fd, e>>] = x}
<1>1. woken'[x] = woken[x] + Cardinality(Its) /\ woken[x] \in Nat
  BY DEF Wake, Table, TableTypes
<1>2. CASE Its = {}
  <2>1. Cardinality(Its) = 0
    BY <1>2, FS_EmptySet
  <2>2. woken'[x] = woken[x] + 0
    BY <1>1, <2>1, Zenon
  <2>3. ~\E e \in evs : ctx[<<fd, e>>] = x
    BY <1>2
  <2> QED
    BY <1>1, <2>2, <2>3
<1>3. CASE Its # {}
  <2>1. PICK e \in evs : ctx[<<fd, e>>] = x
    BY <1>3
  <2>2. \A f \in evs : ctx[<<fd, f>>] = x => f = e
    BY <2>1, WaitersAssumption DEF Table, OneSlot
  <2>3. Its = {e}
    BY <2>1, <2>2
  <2>4. Cardinality(Its) = 1
    BY <2>3, FS_Singleton
  <2> QED
    BY <1>1, <2>1, <2>4
<1> QED
  BY <1>2, <1>3

(* A waiter has left when it was in one of the slots that Remove empties.  *)
LEMMA RemoveLeaves ==
  ASSUME NEW fd \in Fds, NEW evs \in SUBSET Event, Table, Remove(fd, evs), NEW x \in Waiters
  PROVE  /\ used' = used
         /\ (\E e \in evs : ctx[<<fd, e>>] = x) => Registered(x) /\ ~Registered(x)'
         /\ ~(\E e \in evs : ctx[<<fd, e>>] = x) => (Registered(x)' <=> Registered(x))
<1>1. \A gd \in Fds, e \in Event :
        ctx'[<<gd, e>>] = IF gd = fd /\ e \in evs THEN NoWaiter ELSE ctx[<<gd, e>>]
  BY RemoveSlots DEF Table, Emptied
<1>2. /\ Registered(x) <=> \E gd \in Fds, e \in Event : ctx[<<gd, e>>] = x
      /\ Registered(x)' <=> \E gd \in Fds, e \in Event : ctx'[<<gd, e>>] = x
  <2>1. /\ \A gd \in Fds, e \in Event : <<gd, e>> \in Slots
        /\ \A s \in Slots : \E gd \in Fds, e \in Event : s = <<gd, e>>
    BY DEF Slots
  <2>2. Registered(x) <=> \E gd \in Fds, e \in Event : ctx[<<gd, e>>] = x
    BY <2>1, Zenon DEF Registered
  <2>3. Registered(x)' <=> \E gd \in Fds, e \in Event : ctx'[<<gd, e>>] = x
    BY <2>1, Zenon DEF Registered
  <2> QED
    BY <2>2, <2>3
<1>3. ASSUME NEW e \in evs, ctx[<<fd, e>>] = x
      PROVE  Registered(x) /\ ~Registered(x)'
  <2>1. Registered(x) /\ x # NoWaiter
    BY <1>2, <1>3, WaitersAssumption
  <2>2. \A gd \in Fds, f \in Event : ctx[<<gd, f>>] = x => gd = fd /\ f = e
    BY <1>3, <2>1 DEF Table, OneSlot
  <2> QED
    BY <1>1, <1>2, <1>3, <2>1, <2>2
<1>4. ASSUME ~(\E e \in evs : ctx[<<fd, e>>] = x)
      PROVE  Registered(x)' <=> Registered(x)
  <2>1. x # NoWaiter
    BY WaitersAssumption
  <2> QED
    BY <1>1, <1>2, <1>4, <2>1
<1> QED
  BY <1>3, <1>4 DEF Remove

(* A registered waiter has not been woken.                                 *)
LEMMA WaitingUnwoken ==
  ASSUME Table, NEW x \in Waiters, Registered(x)
  PROVE  woken[x] = 0 /\ x \in used
<1>1. PICK s \in Slots : ctx[s] = x
  BY DEF Registered
<1>2. PICK fd \in Fds, e \in Event : s = <<fd, e>>
  BY DEF Slots
<1> QED
  BY <1>1, <1>2, WaitersAssumption DEF Table, Waits

(* Who leaves the table by Remove and Wake has been woken.                 *)
LEMMA LeavesWoken ==
  ASSUME NEW fd \in Fds, NEW evs \in SUBSET Event, Table, Remove(fd, evs), Wake(fd, evs),
         NEW x \in Waiters
  PROVE  \/ Awaits(x)' = Awaits(x)
         \/ Awaits(x) = "waiting" /\ Awaits(x)' = "woken"
<1>1. CASE \E e \in evs : ctx[<<fd, e>>] = x
  <2>1. Registered(x) /\ ~Registered(x)' /\ woken'[x] = woken[x] + 1
    BY <1>1, WakeCounts, RemoveLeaves
  <2>2. woken'[x] > 0
    BY <2>1, WaitingUnwoken
  <2> QED
    BY <2>1, <2>2 DEF Awaits
<1>2. CASE ~\E e \in evs : ctx[<<fd, e>>] = x
  <2>1. (Registered(x)' <=> Registered(x)) /\ woken'[x] = woken[x] /\ used' = used
    BY <1>2, WakeCounts, RemoveLeaves
  <2> QED
    BY <2>1 DEF Awaits
<1> QED
  BY <1>1, <1>2

(* Every step takes a waiter to its next state or leaves it.               *)
LEMMA AwaitsStep ==
  ASSUME IndInv, [Next]_vars, NEW x \in Waiters
  PROVE  \/ Awaits(x)' = Awaits(x)
         \/ Awaits(x) = "new" /\ Awaits(x)' = "waiting"
         \/ Awaits(x) = "waiting" /\ Awaits(x)' = "woken"
         \/ /\ Awaits(x) = "waiting" /\ Awaits(x)' = "deleted"
            /\ \E fd \in Fds, e \in Event : delEvent(fd, e) /\ ctx[<<fd, e>>] = x
<1>1. Table /\ events \in [Fds -> SUBSET Event]
  BY DEF IndInv, Table, TableTypes
<1>2. ASSUME UNCHANGED tableVars PROVE Awaits(x)' = Awaits(x)
  BY <1>2 DEF tableVars, Awaits, Registered
<1>3. ASSUME NEW fd \in Fds, NEW e \in Event, NEW y \in Waiters, addEvent(fd, e, y)
      PROVE  \/ Awaits(x)' = Awaits(x)
             \/ Awaits(x) = "new" /\ Awaits(x)' = "waiting"
  <2>1. ctx[<<fd, e>>] = NoWaiter /\ <<fd, e>> \in Slots
    BY <1>1, <1>3 DEF addEvent, Table, Taken, Slots
  <2>2. /\ ctx' = [ctx EXCEPT ![<<fd, e>>] = y] /\ used' = used \cup {y}
        /\ woken' = woken /\ y \notin used
    BY <1>3, <2>1 DEF addEvent
  <2>3. \A s \in Slots : ctx'[s] = IF s = <<fd, e>> THEN y ELSE ctx[s]
    BY <1>1, <2>2 DEF Table, TableTypes
  <2>4. CASE x = y
    <3>1. ~Registered(x) /\ woken[x] = 0
      BY <1>1, <2>2, <2>4, WaitingUnwoken DEF Table, Waits
    <3>2. Registered(x)'
      BY <2>1, <2>3, <2>4 DEF Registered
    <3> QED
      BY <2>2, <2>4, <3>1, <3>2 DEF Awaits
  <2>5. CASE x # y
    <3>1. Registered(x)' <=> Registered(x)
      BY <2>1, <2>3, <2>5, WaitersAssumption DEF Registered
    <3> QED
      BY <2>2, <2>5, <3>1 DEF Awaits
  <2> QED
    BY <2>4, <2>5
<1>4. ASSUME NEW fd \in Fds, NEW e \in Event, delEvent(fd, e)
      PROVE  \/ Awaits(x)' = Awaits(x)
             \/ Awaits(x) = "waiting" /\ Awaits(x)' = "deleted" /\ ctx[<<fd, e>>] = x
  <2>1. Remove(fd, {e}) /\ woken' = woken /\ used' = used
    BY <1>4 DEF delEvent, Remove
  <2>2. CASE ctx[<<fd, e>>] = x
    <3>1. Registered(x) /\ ~Registered(x)'
      BY <1>1, <2>1, <2>2, RemoveLeaves
    <3>2. woken[x] = 0 /\ x \in used
      BY <1>1, <3>1, WaitingUnwoken
    <3>3. Awaits(x) = "waiting" /\ Awaits(x)' = "deleted"
      BY <2>1, <3>1, <3>2 DEF Awaits
    <3> QED
      BY <2>2, <3>3
  <2>3. CASE ctx[<<fd, e>>] # x
    <3>1. {e} \in SUBSET Event /\ ~\E f \in {e} : ctx[<<fd, f>>] = x
      BY <2>3
    <3>2. Registered(x)' <=> Registered(x)
      BY <1>1, <2>1, <3>1, RemoveLeaves
    <3> QED
      BY <2>1, <3>2 DEF Awaits
  <2> QED
    BY <2>2, <2>3
<1>5. ASSUME NEW fd \in Fds, NEW evs \in SUBSET Event, Remove(fd, evs), Wake(fd, evs)
      PROVE  \/ Awaits(x)' = Awaits(x)
             \/ Awaits(x) = "waiting" /\ Awaits(x)' = "woken"
  BY <1>1, <1>5, LeavesWoken
<1>6. ASSUME NEW fd \in Fds, NEW e \in Event, cancelEvent(fd, e)
      PROVE  \/ Awaits(x)' = Awaits(x)
             \/ Awaits(x) = "waiting" /\ Awaits(x)' = "woken"
  BY <1>5, <1>6 DEF cancelEvent
<1>7. ASSUME NEW fd \in Fds, cancelAll(fd)
      PROVE  \/ Awaits(x)' = Awaits(x)
             \/ Awaits(x) = "waiting" /\ Awaits(x)' = "woken"
  BY <1>1, <1>5, <1>7 DEF cancelAll
<1>8. ASSUME NEW fd \in Fds, CloseBegin(fd)
      PROVE  \/ Awaits(x)' = Awaits(x)
             \/ Awaits(x) = "waiting" /\ Awaits(x)' = "woken"
  BY <1>2, <1>7, <1>8 DEF CloseBegin
<1>9. ASSUME NEW fd \in Fds, CloseEnd(fd) PROVE Awaits(x)' = Awaits(x)
  BY <1>2, <1>9 DEF CloseEnd
<1>10. ASSUME NEW fd \in Fds, Environment(fd) PROVE Awaits(x)' = Awaits(x)
  BY <1>2, <1>10 DEF Environment, Arises, Passes
<1>11. ASSUME NEW w \in Workers, epoll_wait(w) PROVE Awaits(x)' = Awaits(x)
  BY <1>2, <1>11 DEF epoll_wait
<1>12. ASSUME NEW w \in Workers, NEW ev \in batch[w], Process(w, ev)
       PROVE  \/ Awaits(x)' = Awaits(x)
              \/ Awaits(x) = "waiting" /\ Awaits(x)' = "woken"
  <2>1. ev.fd \in Fds
    BY DEF IndInv, KernelTypes, EpollEvents
  <2>2. \/ UNCHANGED tableVars
        \/ /\ RealEvents(ev) \subseteq events[ev.fd]
           /\ Remove(ev.fd, RealEvents(ev)) /\ Wake(ev.fd, RealEvents(ev))
    BY <1>12, Zenon DEF Process
  <2>3. RealEvents(ev) \subseteq events[ev.fd] => RealEvents(ev) \in SUBSET Event
    BY <1>1, <2>1
  <2> QED
    BY <1>2, <1>5, <2>1, <2>2, <2>3
<1>13. CASE UNCHANGED vars
  BY <1>2, <1>13 DEF vars
<1> QED
  BY <1>3, <1>4, <1>6, <1>7, <1>8, <1>9, <1>10, <1>11, <1>12, <1>13
     DEF Next, Call, CancelAll, Idle

(* The life of a waiter in the table, whatever calls and workers come to   *)
(* its descriptor in whatever order.                                       *)
THEOREM AwaitedOnceHolds == Spec => AwaitedOnce
<1>1. ASSUME IndInv, [Next]_vars
      PROVE  [\A x \in Waiters :
                \/ Awaits(x)' = Awaits(x)
                \/ Awaits(x) = "new" /\ Awaits(x)' = "waiting"
                \/ Awaits(x) = "waiting" /\ Awaits(x)' = "woken"
                \/ /\ Awaits(x) = "waiting" /\ Awaits(x)' = "deleted"
                   /\ \E fd \in Fds, e \in Event :
                        delEvent(fd, e) /\ ctx[<<fd, e>>] = x]_vars
  BY <1>1, AwaitsStep
<1> QED
  BY <1>1, Inductive, PTL DEF Spec, AwaitedOnce

-----------------------------------------------------------------------------
(* connect_with_timeout.                                                   *)

(* A fiber is registered or queued, not both, and a callback marks the     *)
(* call before it cancels the event.                                       *)
Apart == reg \cap queue = {} /\ cancelling \subseteq cancelled

(* The attempt of a fiber that has been woken is over; a call that has not *)
(* begun has none, and a refusal has yet to be asked for; all but for the  *)
(* calls that others have led astray.                                      *)
Decided ==
  \A f \in Fibers :
    /\ pc[f] = "call" => net[f] = "fresh" /\ f \notin reg
    /\ result[f] # "none" => pc[f] = "done"
    /\ f \notin blind \cup reused =>
         /\ net[f] = "fresh" => pc[f] = "call" \/ result[f] = "error"
         /\ f \in queue => net[f] # "connecting" \/ f \in cancelled
         /\ pc[f] = "getsockopt" => net[f] # "connecting" \/ life[f] = "closed"
         /\ net[f] = "refused" /\ pc[f] # "done" => f \in soError

(* A fiber that waits for its connection is in the task queue, or it is    *)
(* registered on a descriptor that is open and that epoll watches, or it   *)
(* registered between cancelAll and close_f; its timeout, if it has one,   *)
(* is still to come or has marked the call.                                *)
ConnectAwaited ==
  \A f \in Fibers :
    /\ pc[f] = "asleep" =>
         \/ f \in queue
         \/ f \in reg /\ ((f \in watched /\ life[f] # "closed") \/ f \in slipped)
    /\ pc[f] \in {"add", "asleep"} /\ f \in Timed =>
         f \in armed \cup fired \cup cancelled

(* A registration that no close() has overtaken is watched.                *)
ConnectKept == \A f \in reg \ slipped : f \in watched /\ life[f] = "open"

ConnectInv == /\ ConnectTypes /\ Apart /\ Decided /\ ConnectTruth
              /\ ConnectAwaited /\ ConnectKept

-----------------------------------------------------------------------------
(* The initial state of HookConnect satisfies the invariant above.         *)
LEMMA ConnectBegins == ConnectInit => ConnectInv
BY DEF ConnectInit, ConnectInv, ConnectTypes, Apart, Decided, ConnectTruth,
   ConnectAwaited, ConnectKept

(* Every step of HookConnect keeps it: one step of the proof per action.   *)
LEMMA ConnectKeeps == ConnectInv /\ [ConnectNext]_connectVars => ConnectInv'
<1> SUFFICES ASSUME ConnectInv, [ConnectNext]_connectVars PROVE ConnectInv'
  OBVIOUS
<1> USE ConnectAssumption DEF ConnectInv, ConnectTypes, Apart, Decided,
        ConnectTruth, ConnectAwaited, ConnectKept, netVars, waitVars, wakeVars,
        history
<1>1. ASSUME NEW f \in Fibers, NoContext(f) PROVE ConnectInv'
  BY <1>1 DEF NoContext, Return, Goto
<1>2. ASSUME NEW f \in Fibers, Connect(f) PROVE ConnectInv'
  BY <1>2 DEF Connect, Return, Goto
<1>3. ASSUME NEW f \in Fibers, AddTimer(f) PROVE ConnectInv'
  BY <1>3 DEF AddTimer, Goto
<1>4. ASSUME NEW f \in Fibers, AddEvent(f) PROVE ConnectInv'
  BY <1>4 DEF AddEvent, Goto
<1>5. ASSUME NEW f \in Fibers, Resume(f) PROVE ConnectInv'
  BY <1>5 DEF Resume, Return, Goto
<1>6. ASSUME NEW f \in Fibers, GetSockOpt(f) PROVE ConnectInv'
  BY <1>6 DEF GetSockOpt, Return, Goto
<1>7. ASSUME NEW f \in Fibers, Expire(f) PROVE ConnectInv'
  BY <1>7 DEF Expire
<1>8. ASSUME NEW f \in Fibers, Callback(f) PROVE ConnectInv'
  BY <1>8 DEF Callback
<1>9. ASSUME NEW f \in Fibers, CallbackCancel(f) PROVE ConnectInv'
  BY <1>9 DEF CallbackCancel, Trigger
<1>10. ASSUME NEW f \in Fibers, WriteEvent(f) PROVE ConnectInv'
  BY <1>10 DEF WriteEvent, Trigger
<1>11. ASSUME NEW f \in Fibers, Decide(f) PROVE ConnectInv'
  BY <1>11 DEF Decide
<1>12. ASSUME NEW f \in Fibers, RivalWaits(f) PROVE ConnectInv'
  BY <1>12 DEF RivalWaits
<1>13. ASSUME NEW f \in Fibers, RivalCancels(f) PROVE ConnectInv'
  BY <1>13 DEF RivalCancels, TriggerBlindly, Trigger
<1>14. ASSUME NEW f \in Fibers, RivalTakesError(f) PROVE ConnectInv'
  BY <1>14 DEF RivalTakesError
<1>15. ASSUME NEW f \in Fibers, StartClose(f) PROVE ConnectInv'
  BY <1>15 DEF StartClose, TriggerBlindly, Trigger
<1>16. ASSUME NEW f \in Fibers, Del(f) PROVE ConnectInv'
  BY <1>16 DEF Del
<1>17. ASSUME NEW f \in Fibers, Close(f) PROVE ConnectInv'
  BY <1>17 DEF Close
<1>18. ASSUME NEW f \in Fibers, Reuse(f) PROVE ConnectInv'
  BY <1>18 DEF Reuse
<1>19. CASE UNCHANGED connectVars
  BY <1>19 DEF connectVars
<1> QED
  BY <1>1, <1>2, <1>3, <1>4, <1>5, <1>6, <1>7, <1>8, <1>9, <1>10,
     <1>11, <1>12, <1>13, <1>14, <1>15, <1>16, <1>17, <1>18, <1>19
  DEF ConnectNext, Step, Served, Others

-----------------------------------------------------------------------------
(* The type invariant: only a fiber that has yielded is registered or      *)
(* queued, and only a call with a timeout is ever marked.                  *)
THEOREM ConnectTypesHold == ConnectSpec => []ConnectTypes
<1>1. ConnectInv => ConnectTypes
  BY DEF ConnectInv
<1> QED
  BY ConnectBegins, ConnectKeeps, <1>1, PTL DEF ConnectSpec

(* connect() returns 0 only for a socket that is connected, or whose error *)
(* the system call reported at once, however the network, the timer, its   *)
(* queued callback and close() race, unless another user of the socket     *)
(* makes it look too early or takes the error, or the number is reused.    *)
THEOREM ConnectTruthHolds == ConnectSpec => []ConnectTruth
<1>1. ConnectInv => ConnectTruth
  BY DEF ConnectInv
<1> QED
  BY ConnectBegins, ConnectKeeps, <1>1, PTL DEF ConnectSpec

(* Nobody is forgotten in connect(): whatever order the network, the       *)
(* timer, its callback, other writers and close() come in, a fiber that    *)
(* waits is about to be resumed or is still to be found by the event, by   *)
(* its timer's callback and by close(), unless it registered inside of a   *)
(* close().                                                                *)
THEOREM ConnectAwaitedHolds == ConnectSpec => []ConnectAwaited
<1>1. ConnectInv => ConnectAwaited
  BY DEF ConnectInv
<1> QED
  BY ConnectBegins, ConnectKeeps, <1>1, PTL DEF ConnectSpec
=============================================================================
