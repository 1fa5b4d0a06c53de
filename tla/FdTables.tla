------------------------------ MODULE FdTables ------------------------------
(***************************************************************************)
(* The two vectors of corlib that are indexed by descriptor and grow on    *)
(* demand: FdManager::m_datas, whose entries are made by get(fd, true) and *)
(* reset by del (fd_manager.cpp), and IOManager::m_fdContexts, all of      *)
(* whose entries contextResize makes (ioscheduler.cpp).  Both are looked   *)
(* up under a shared lock, which is released before the exclusive one is   *)
(* taken to grow them: the vector may have another size by then.           *)
(*                                                                         *)
(* Threads accept connections, wait for their READ events and close them.  *)
(* A FdContext that drops out of its vector is not freed: a thread, or     *)
(* epoll, that holds a pointer to it goes on using it.                     *)
(***************************************************************************)
EXTENDS Naturals

CONSTANTS
  Threads,
  Fds,           \* the descriptors connections can have
  DatasSize,     \* the first size of m_datas (64)
  ContextsSize   \* the first size of m_fdContexts (32)

ASSUME SizesAssumption ==
  /\ Fds \subseteq Nat
  /\ DatasSize \in Nat \ {0, 1} /\ ContextsSize \in Nat \ {0, 1}

VARIABLES
  open,      \* the open connections
  closing,   \* those that close() has not closed yet but taken from the tables
  dsize,     \* m_datas.size()
  datas,     \* the descriptors with a FdCtx in m_datas
  csize,     \* m_fdContexts.size()
  waiting,   \* those with a READ event in their FdContext in m_fdContexts
  orphans,   \* those with a READ event in a FdContext that has dropped out
  pc,        \* the next step of each thread
  cur,       \* the descriptor it works on
  outdated,  \* threads whose fd_ctx has dropped out of m_fdContexts
  seen,      \* m_fdContexts.size() as a thread has read it
  raced      \* a thread has resized a vector that was no longer the one it
             \* had read the size of (history)

vars == <<open, closing, dsize, datas, csize, waiting, orphans, pc, cur,
          outdated, seen, raced>>

Goto(t, l) == pc' = [pc EXCEPT ![t] = l]
Larger(fd) == (fd * 3) \div 2        \* fd * 1.5
Busy(fd) == \E t \in Threads : pc[t] # "idle" /\ cur[t] = fd

-----------------------------------------------------------------------------
(* FdManager.                                                              *)

(* accept() has returned fd; get(fd, true) under the shared lock.          *)
Accept(t, fd) ==
  /\ pc[t] = "idle" /\ fd \notin open
  /\ open' = open \cup {fd} /\ cur' = [cur EXCEPT ![t] = fd]
  /\ Goto(t, IF fd < dsize /\ fd \in datas THEN "idle" ELSE "create")
  /\ UNCHANGED <<closing, dsize, datas, csize, waiting, orphans, outdated,
                 seen, raced>>

\* Mutant: the size is not tested again under the exclusive lock.
CreateUntested(t) ==
  /\ pc[t] = "create"
  /\ dsize' = IF cur[t] < DatasSize THEN dsize ELSE Larger(cur[t])
  /\ datas' = {fd \in datas \cup {cur[t]} : fd < dsize'}
  /\ Goto(t, "idle")
  /\ UNCHANGED <<open, closing, csize, waiting, orphans, cur, outdated, seen,
                 raced>>

(* ... and under the exclusive one.                                        *)
Create(t) ==
  /\ pc[t] = "create"
  /\ dsize' = IF dsize <= cur[t] THEN Larger(cur[t]) ELSE dsize
  /\ datas' = {fd \in datas \cup {cur[t]} : fd < dsize'}
  /\ Goto(t, "idle")
  /\ UNCHANGED <<open, closing, csize, waiting, orphans, cur, outdated, seen,
                 raced>>

-----------------------------------------------------------------------------
(* IOManager::addEvent.                                                    *)

\* Mutant: the vector is resized whether it is long enough or not.
LookupResizes(t, fd) ==
  /\ pc[t] = "idle" /\ fd \in open \ closing /\ ~Busy(fd)
  /\ cur' = [cur EXCEPT ![t] = fd]
  /\ seen' = [seen EXCEPT ![t] = csize]
  /\ Goto(t, "resize")
  /\ UNCHANGED <<open, closing, dsize, datas, csize, waiting, orphans,
                 outdated, raced>>

(* The FdContext is looked up under the shared lock.                       *)
Lookup(t, fd) ==
  /\ pc[t] = "idle" /\ fd \in open \ closing /\ ~Busy(fd)
  /\ cur' = [cur EXCEPT ![t] = fd]
  /\ seen' = [seen EXCEPT ![t] = csize]
  /\ Goto(t, IF fd < csize THEN "register" ELSE "resize")
  /\ UNCHANGED <<open, closing, dsize, datas, csize, waiting, orphans,
                 outdated, raced>>

(* contextResize: the vector gets the size that fd needs, more or less     *)
(* than it has.                                                            *)
Resize(t) ==
  /\ pc[t] = "resize"
  /\ csize' = Larger(cur[t])
  /\ waiting' = {fd \in waiting : fd < csize'}
  /\ orphans' = orphans \cup (waiting \ waiting')
  /\ outdated' = outdated \cup
       {u \in Threads : pc[u] = "register" /\ cur[u] >= csize'}
  /\ raced' = (raced \/ csize # seen[t])
  /\ Goto(t, "register")
  /\ UNCHANGED <<open, closing, dsize, datas, cur, seen>>

(* The event goes into the FdContext, unless it is there or epoll has the  *)
(* descriptor from another one.                                            *)
Register(t) ==
  /\ pc[t] = "register"
  /\ IF cur[t] \in orphans THEN UNCHANGED <<waiting, orphans>>
     ELSE IF t \in outdated
     THEN orphans' = orphans \cup {cur[t]} /\ UNCHANGED waiting
     ELSE waiting' = waiting \cup {cur[t]} /\ UNCHANGED orphans
  /\ outdated' = outdated \ {t}
  /\ Goto(t, "idle")
  /\ UNCHANGED <<open, closing, dsize, datas, csize, cur, seen, raced>>

(* idle(): epoll returns the pointer to the FdContext.                     *)
Served(fd) ==
  /\ fd \in open /\ fd \in waiting \cup orphans
  /\ waiting' = waiting \ {fd} /\ orphans' = orphans \ {fd}
  /\ UNCHANGED <<open, closing, dsize, datas, csize, pc, cur, outdated, seen,
                 raced>>

(* Hooked close(): cancelAll of what the vector has, and del, ...          *)
CloseBegin(fd) ==
  /\ fd \in open \ closing /\ ~Busy(fd)
  /\ waiting' = waiting \ {fd} /\ datas' = datas \ {fd}
  /\ closing' = closing \cup {fd}
  /\ UNCHANGED <<open, dsize, csize, orphans, pc, cur, outdated, seen, raced>>

(* ... and the system call: until then the number is not given away.       *)
CloseEnd(fd) ==
  /\ fd \in closing
  /\ open' = open \ {fd} /\ closing' = closing \ {fd}
  /\ UNCHANGED <<dsize, datas, csize, waiting, orphans, pc, cur, outdated,
                 seen, raced>>

-----------------------------------------------------------------------------
Init ==
  /\ open = {} /\ closing = {} /\ dsize = DatasSize /\ datas = {}
  /\ csize = ContextsSize /\ waiting = {} /\ orphans = {}
  /\ pc = [t \in Threads |-> "idle"] /\ cur = [t \in Threads |-> 0]
  /\ outdated = {} /\ seen = [t \in Threads |-> csize] /\ raced = FALSE

Next ==
  \/ \E t \in Threads :
       \/ \E fd \in Fds : Accept(t, fd) \/ Lookup(t, fd)
       \/ Create(t) \/ Resize(t) \/ Register(t)
  \/ \E fd \in Fds : Served(fd) \/ CloseBegin(fd) \/ CloseEnd(fd)

Spec == Init /\ [][Next]_vars

-----------------------------------------------------------------------------
(* Besides the types: no entry lies beyond the end of its vector.          *)
TypeOK ==
  /\ open \subseteq Fds /\ closing \subseteq open
  /\ dsize \in Nat /\ csize \in Nat
  /\ datas \subseteq {fd \in Fds : fd < dsize}
  /\ waiting \subseteq {fd \in Fds : fd < csize}
  /\ orphans \subseteq Fds
  /\ pc \in [Threads -> {"idle", "create", "resize", "register"}]
  /\ cur \in [Threads -> Fds \cup {0}] /\ outdated \subseteq Threads
  /\ seen \in [Threads -> Nat] /\ raced \in BOOLEAN

(* An open connection keeps its FdCtx, whatever other descriptors make the *)
(* vector grow meanwhile: its calls stay hooked, its timeouts apply, until *)
(* it is closed.                                                           *)
CtxStays ==
  \A fd \in open \ closing :
    fd \in datas \/ \E t \in Threads : pc[t] = "create" /\ cur[t] = fd

(* A registered event is in the FdContext that m_fdContexts has for its    *)
(* descriptor, where cancelEvent and close() find it, unless two threads   *)
(* found the vector too short at once (ioscheduler.cpp:138-149): the one   *)
(* with the smaller descriptor then shrinks what the other has made, while *)
(* cancelAll "取消所有事件并触发其回调" (ioscheduler.h:69) is thought to find  *)
(* every event.                                                            *)
EventsFound == orphans # {} => raced
=============================================================================
