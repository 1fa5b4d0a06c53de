---------------------------- MODULE EventServer ----------------------------
(***************************************************************************)
(* The servers of corlib (corlib/main.cpp), of epoll (epoll/main.cpp) and  *)
(* of libevent (libevent/main.cpp), of one thread each.  They answer the   *)
(* first request of a connection and close it.                             *)
(*                                                                         *)
(* IOManager and libevent are present by what they promise: what is ready  *)
(* and watched is handled, in any order, and what is found in one turn is  *)
(* handled before the next.  An event of IOManager is one-shot; the        *)
(* others' are level-triggered.                                            *)
(***************************************************************************)
EXTENDS EchoClients, SequencesExt

Listen == 0            \* sock_listen_fd, listen_fd, listener

VARIABLES oneShot,
          watched,     \* the descriptors with a registered event
          queue,       \* those found ready in this turn
          cur,         \* the one that is handled, or Null
          step         \* the system call it is about to make

eventVars == <<oneShot, watched, queue, cur, step>>

Ready(x) == IF x = Listen THEN backlog # <<>> ELSE Readable(x)

Turn ==
  /\ cur = Null /\ queue = <<>>
  /\ \E found \in SetToSeqs({x \in watched : Ready(x)}) \ {<<>>} : queue' = found
  /\ watched' = IF oneShot THEN watched \ Range(queue') ELSE watched
  /\ UNCHANGED <<netVars, oneShot, cur, step>>

Handle ==
  /\ cur = Null /\ queue # <<>>
  /\ cur' = Head(queue) /\ queue' = Tail(queue)
  /\ step' = IF cur' = Listen THEN "accept" ELSE "recv"
  /\ UNCHANGED <<netVars, oneShot, watched>>

\* corlib's listener is added again after every accept.
test_accept ==
  /\ oneShot /\ cur = Listen /\ cur' = Null
  /\ IF Accepts
       THEN accept /\ watched' = watched \cup {NewFd, Listen}
       ELSE UNCHANGED netVars /\ watched' = watched \cup {Listen}
  /\ UNCHANGED <<oneShot, queue, step>>

\* A number above FD_SETSIZE would be closed at once (libevent/main.cpp:48-49);
\* the process has none so large here.
accept_conn_cb ==
  /\ ~oneShot /\ cur = Listen /\ cur' = Null
  /\ IF Accepts
       THEN accept /\ watched' = watched \cup {NewFd}
       ELSE UNCHANGED <<netVars, watched>>
  /\ UNCHANGED <<oneShot, queue, step>>

\* The callback of a connection: one recv, one response, close.
Recv ==
  /\ cur \in Fds /\ step = "recv" /\ Readable(cur)
  /\ IF Data(cur) THEN recv(cur) /\ step' = "send"
                  ELSE UNCHANGED netVars /\ step' = "close"
  /\ UNCHANGED <<oneShot, watched, queue, cur>>

Send ==
  /\ cur \in Fds /\ step = "send"
  /\ send(cur) /\ step' = "close"
  /\ UNCHANGED <<oneShot, watched, queue, cur>>

\* Mutant: the connection is kept open after the response.
CloseKeeps ==
  /\ cur \in Fds /\ step = "close" /\ cur' = Null
  /\ IF Eof(cur) THEN close(cur) /\ watched' = watched \ {cur}
                 ELSE UNCHANGED <<netVars, watched>>
  /\ UNCHANGED <<oneShot, queue, step>>

Close ==
  /\ cur \in Fds /\ step = "close"
  /\ close(cur) /\ watched' = watched \ {cur} /\ cur' = Null
  /\ UNCHANGED <<oneShot, queue, step>>

EventNext == ~killed /\ (Turn \/ Handle \/ test_accept \/ accept_conn_cb \/ Recv \/ Send \/ Close)

EventInit ==
  /\ oneShot \in BOOLEAN /\ watched = {Listen} /\ queue = <<>>
  /\ cur = Null /\ step = "accept"

EventTypeOK ==
  /\ oneShot \in BOOLEAN /\ watched \subseteq Fds \cup {Listen}
  /\ queue \in Seq(Fds \cup {Listen}) /\ cur \in Fds \cup {Listen, Null}
  /\ step \in {"accept", "recv", "send", "close"}

\* Where the server knows fd from: one-shot events leave the watched ones.
EventOwners(fd) ==
  (IF fd \in watched /\ (oneShot \/ (cur # fd /\ ~Contains(queue, fd))) THEN 1 ELSE 0)
    + Cardinality({i \in DOMAIN queue : queue[i] = fd}) + (IF cur = fd THEN 1 ELSE 0)
=============================================================================
