---------------------------- MODULE LibcoServer ----------------------------
(***************************************************************************)
(* The benchmark's server on libco (libco/main.cpp), one of its processes: *)
(* accept_routine hands connections to the idle readwrite_routines, with   *)
(* the system calls as libco's hooks make them (co_hook_sys_call.cpp).     *)
(* co_eventloop is present by what it promises: coroutines whose poll is   *)
(* ready or has timed out are resumed, in any order, before the next turn. *)
(***************************************************************************)
EXTENDS EchoClients, SequencesExt

CONSTANTS Tasks,       \* the readwrite_routines
          Acceptor     \* accept_routine

ASSUME TasksAssumption == /\ IsFiniteSet(Tasks) /\ Acceptor \notin Tasks
                          /\ Null \notin Tasks \cup {Acceptor}

Cos == Tasks \cup {Acceptor}
NoFd == 0

VARIABLES pool,        \* g_readwrite, its top last
          taskFd,      \* task_t::fd, NoFd for -1
          fdOf,        \* fd of readwrite_routine, NoFd when it has none
          polls,       \* the coroutines in co_poll
          napping,     \* accept_routine polls no descriptor
          late,        \* coroutines whose poll has timed out
          active,      \* to be resumed in this turn
          running,     \* the coroutine that runs, Null in the loop
          nested,      \* it was resumed by accept_routine
          at,          \* what it is about to do
          nonblock,    \* the descriptors that are non-blocking to the kernel
          agents,      \* g_rpchook_socket_fd: those with an entry
          errno,
          spun         \* history: a closed connection was taken for EAGAIN

libcoVars == <<pool, taskFd, fdOf, polls, napping, late, active, running, nested, at,
               nonblock, agents, errno, spun>>
sockets == <<nonblock, agents>>
loop == <<late, active>>

CoReady(x) ==
  \/ x \in late
  \/ x \in Tasks /\ Readable(fdOf[x])
  \/ x = Acceptor /\ ~napping /\ backlog # <<>>

Timeout(x) ==
  /\ x \in polls /\ x \notin late /\ late' = late \cup {x}
  /\ UNCHANGED <<netVars, pool, taskFd, fdOf, polls, napping, active, running, nested, at,
                 sockets, errno, spun>>

CoTurn ==
  /\ running = Null /\ active = <<>>
  /\ \E found \in SetToSeqs({x \in polls : CoReady(x)}) \ {<<>>} : active' = found
  /\ polls' = polls \ Range(active') /\ late' = late \ Range(active')
  /\ UNCHANGED <<netVars, pool, taskFd, fdOf, napping, running, nested, at, sockets, errno,
                 spun>>

Resume ==
  /\ running = Null /\ active # <<>>
  /\ running' = Head(active) /\ active' = Tail(active)
  /\ at' = IF running' = Acceptor THEN "accept" ELSE "read"
  /\ UNCHANGED <<netVars, pool, taskFd, fdOf, polls, napping, late, nested, sockets, errno,
                 spun>>

\* co_poll and co_yield_ct of the running coroutine: back to its caller
Yields == /\ running' = IF nested THEN Acceptor ELSE Null
          /\ at' = "accept" /\ nested' = FALSE
Polls == polls' = polls \cup {running} /\ Yields

\* accept_routine sleeps while no task is idle, and waits when accept fails.
AcceptWaits ==
  /\ running = Acceptor /\ (pool = <<>> \/ ~Accepts)
  /\ napping' = (pool = <<>>)
  /\ errno' = IF pool = <<>> THEN errno ELSE IF backlog = <<>> THEN "EAGAIN" ELSE "EMFILE"
  /\ Polls
  /\ UNCHANGED <<netVars, pool, taskFd, fdOf, loop, sockets, spun>>

\* co_accept makes the entry, SetNonBlock tells it and the kernel.
co_accept == accept /\ agents' = agents \cup {NewFd}
SetNonBlock(fd) == nonblock' = nonblock \cup {fd}

AcceptHands ==
  /\ running = Acceptor /\ pool # <<>> /\ Accepts
  /\ co_accept /\ SetNonBlock(NewFd)
  /\ taskFd' = [taskFd EXCEPT ![Last(pool)] = NewFd]
  /\ pool' = Front(pool) /\ running' = Last(pool) /\ nested' = TRUE /\ at' = "take"
  /\ UNCHANGED <<fdOf, polls, napping, loop, errno, spun>>

\* Mutant: task_t::fd is not taken out.
TakeKeeps ==
  /\ running \in Tasks /\ at = "take"
  /\ fdOf' = [fdOf EXCEPT ![running] = taskFd[running]]
  /\ IF taskFd[running] = NoFd
       THEN pool' = Append(pool, running) /\ Yields /\ UNCHANGED polls
       ELSE Polls /\ UNCHANGED pool
  /\ UNCHANGED <<netVars, taskFd, napping, loop, sockets, errno, spun>>

\* The outer loop of readwrite_routine: idle without a connection, or its
\* first poll
Take ==
  /\ running \in Tasks /\ at = "take"
  /\ fdOf' = [fdOf EXCEPT ![running] = taskFd[running]]
  /\ taskFd' = [taskFd EXCEPT ![running] = NoFd]
  /\ IF taskFd[running] = NoFd
       THEN pool' = Append(pool, running) /\ Yields /\ UNCHANGED polls
       ELSE Polls /\ UNCHANGED pool
  /\ UNCHANGED <<netVars, napping, loop, sockets, errno, spun>>

\* The hooked read of a non-blocking descriptor is the system call.  At the
\* end of the connection it returns 0 and leaves errno as it was.
Read ==
  /\ running \in Tasks /\ at = "read"
  /\ LET fd == fdOf[running]
     IN  /\ errno' = IF Reset(fd) THEN "ECONNRESET"
                     ELSE IF Readable(fd) THEN errno ELSE "EAGAIN"
         /\ spun' = (spun \/ (Eof(fd) /\ errno = "EAGAIN"))
         /\ IF Data(fd) THEN recv(fd) /\ at' = "write" /\ UNCHANGED <<polls, running, nested>>
            ELSE IF errno' = "EAGAIN" THEN Polls /\ UNCHANGED netVars
            ELSE at' = "close" /\ UNCHANGED <<netVars, polls, running, nested>>
  /\ UNCHANGED <<pool, taskFd, fdOf, napping, loop, sockets>>

Write ==
  /\ running \in Tasks /\ at = "write"
  /\ send(fdOf[running]) /\ Polls
  /\ UNCHANGED <<pool, taskFd, fdOf, napping, loop, sockets, errno, spun>>

\* The hooked close forgets the entry first.
CoClose ==
  /\ running \in Tasks /\ at = "close"
  /\ close(fdOf[running])
  /\ agents' = agents \ {fdOf[running]} /\ nonblock' = nonblock \ {fdOf[running]}
  /\ at' = "take"
  /\ UNCHANGED <<pool, taskFd, fdOf, polls, napping, loop, running, nested, errno, spun>>

LibcoStep == ~killed /\ (CoTurn \/ Resume \/ AcceptWaits \/ AcceptHands \/ Take \/ Read
                           \/ Write \/ CoClose)

\* main() has made TASK_COUNT tasks, which are idle, and resumes accept_routine.
LibcoInit ==
  /\ pool \in {SetToSeq(T) : T \in SUBSET Tasks \ {{}}}
  /\ taskFd = [t \in Tasks |-> NoFd]
  /\ fdOf = [t \in Tasks |-> NoFd]
  /\ polls = {} /\ napping = FALSE /\ late = {} /\ active = <<>>
  /\ running = Acceptor /\ nested = FALSE /\ at = "accept"
  /\ nonblock = {} /\ agents = {} /\ errno = "none" /\ spun = FALSE

LibcoTypeOK ==
  /\ pool \in Seq(Tasks) /\ taskFd \in [Tasks -> Fds \cup {NoFd}]
  /\ fdOf \in [Tasks -> Fds \cup {NoFd}]
  /\ polls \subseteq Cos /\ late \subseteq polls /\ active \in Seq(Cos)
  /\ running \in Cos \cup {Null}
  /\ at \in {"accept", "take", "read", "write", "close"}
  /\ napping \in BOOLEAN /\ nested \in BOOLEAN /\ spun \in BOOLEAN
  /\ nonblock \subseteq Fds /\ agents \subseteq Fds
  /\ errno \in {"none", "EAGAIN", "EMFILE", "ECONNRESET"}

\* The tasks that fd is handed to or served by, and its entry
LibcoOwners(fd) ==
  Cardinality({t \in Tasks : taskFd[t] = fd})
    + Cardinality({t \in Tasks : fdOf[t] = fd /\ ~(running = t /\ at = "take")})
=============================================================================
