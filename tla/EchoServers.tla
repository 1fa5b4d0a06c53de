---------------------------- MODULE EchoServers ----------------------------
(***************************************************************************)
(* The benchmark: its clients against one of its servers.                  *)
(***************************************************************************)
EXTENDS EventServer, LibcoServer

VARIABLE libco         \* the server is the one on libco

vars == <<netVars, eventVars, libcoVars, libco>>

Init == NetInit /\ EventInit /\ LibcoInit /\ libco \in BOOLEAN /\ (libco => ~oneShot)
          /\ (~libco => Range(pool) = Tasks)

Server == \/ ~libco /\ EventNext /\ UNCHANGED <<libcoVars, libco>>
          \/ libco /\ LibcoStep /\ UNCHANGED <<eventVars, libco>>
Client(c) == client_task(c) /\ UNCHANGED <<eventVars, libcoVars, libco>>
TimesOut(x) == libco /\ Timeout(x) /\ UNCHANGED <<eventVars, libco>>

Next == Server \/ (\E c \in Clients : Client(c)) \/ (\E x \in Cos : TimesOut(x))

Spec == Init /\ [][Next]_vars
Fairness == WF_vars(Server) /\ (\A c \in Clients : WF_vars(Client(c)))
              /\ (\A x \in Cos : WF_vars(TimesOut(x)))
FairSpec == Spec /\ Fairness
-----------------------------------------------------------------------------
TypeOK == NetTypeOK /\ EventTypeOK /\ LibcoTypeOK

\* Every open descriptor has exactly one that will handle it, and no closed
\* one has any, though numbers are used again; libco's table of entries
\* follows (libco/main.cpp:44-53 and 126-130, corlib/main.cpp:42-86).
OneHandler ==
  /\ \A fd \in Fds : (IF libco THEN LibcoOwners(fd) ELSE EventOwners(fd))
                       = (IF peer[fd] = Null THEN 0 ELSE 1)
  /\ libco => agents = Open /\ nonblock = Open

\* Neither end of a connection hangs: a client that waits for its reply goes
\* on, and the connection of a client that is gone is closed; unless libco's
\* server has taken the end of a connection for EAGAIN: errno is left from
\* another call, and the task polls the closed connection for ever
\* (libco/main.cpp:78-81).
NobodyHangs ==
  /\ \A c \in Clients : phase[c] = "recv" ~> (phase[c] # "recv" \/ spun)
  /\ \A fd \in Fds : (peer[fd] # Null /\ phase[peer[fd]] = "gone")
                         ~> (peer[fd] = Null \/ spun)
=============================================================================
