---------------------------- MODULE EchoClients ----------------------------
(***************************************************************************)
(* The benchmark clients (client/client.cpp, client/client2.cpp) and their *)
(* TCP connections to a server that shares its descriptors with them.      *)
(*                                                                         *)
(* A client connects once, then sends a request and receives until its     *)
(* time is up.  client.cpp runs its clients as threads, which a failed one *)
(* ends all; client2.cpp as processes.  A request and a reply are received *)
(* in one piece.                                                           *)
(***************************************************************************)
EXTENDS Naturals, Sequences, FiniteSets, FiniteSetsExt

CONSTANTS Clients,
          MaxFd,       \* a bound on the descriptors left to the server
          MaxSends,    \* a bound on the requests of a client
          Null

ASSUME EchoAssumption == /\ MaxFd \in Nat \ {0} /\ MaxSends \in Nat
                         /\ Null \notin Clients \cup 0..MaxFd

Fds == 1..MaxFd

VARIABLES threads,     \* the clients are the threads of one process
          limit,       \* the descriptors left to the server
          phase,       \* "new", "send", "recv" or "gone"
          sends,
          backlog,     \* the connections that wait for accept
          peer,        \* the client behind each of the server's descriptors
          req, rep,    \* an unread request, an unread reply
          shut,        \* the server has closed its end
          resetC,      \* a RST has come to the client
          resetS,      \* and to the server
          killed       \* SIGPIPE has killed the server

clientVars == <<threads, phase, sends>>
tcp == <<backlog, peer, req, rep, shut, resetC, resetS>>
netVars == <<clientVars, limit, tcp, killed>>

-----------------------------------------------------------------------------
\* The server's calls on a connection.

Free == {fd \in 1..limit : peer[fd] = Null}
Open == {fd \in Fds : peer[fd] # Null}

\* accept() takes the lowest descriptor, or fails when there is none.
Accepts == backlog # <<>> /\ Free # {}
NewFd == Min(Free)

\* Mutant: the connection stays in the queue.
AcceptLeaves == /\ peer' = [peer EXCEPT ![NewFd] = Head(backlog)]
                /\ UNCHANGED <<clientVars, limit, backlog, req, rep, shut, resetC, resetS, killed>>

accept == /\ peer' = [peer EXCEPT ![NewFd] = Head(backlog)]
          /\ backlog' = Tail(backlog)
          /\ UNCHANGED <<clientVars, limit, req, rep, shut, resetC, resetS, killed>>

Data(fd) == req[peer[fd]]                                  \* recv > 0
Reset(fd) == ~Data(fd) /\ resetS[peer[fd]]                 \* ECONNRESET
Eof(fd) == ~Data(fd) /\ ~Reset(fd) /\ phase[peer[fd]] = "gone"
Readable(fd) == Data(fd) \/ Reset(fd) \/ Eof(fd)

recv(fd) == /\ req' = [req EXCEPT ![peer[fd]] = FALSE]
            /\ UNCHANGED <<clientVars, limit, backlog, peer, rep, shut, resetC, resetS, killed>>

\* A client that is gone answers the first segment with RST; the next one
\* raises SIGPIPE.
send(fd) ==
  LET c == peer[fd]
  IN  /\ killed' = (killed \/ resetS[c])
      /\ rep' = [rep EXCEPT ![c] = phase[c] # "gone"]
      /\ resetS' = [resetS EXCEPT ![c] = phase[c] = "gone"]
      /\ UNCHANGED <<clientVars, limit, backlog, peer, req, shut, resetC>>

\* A close with unread data resets the connection.
close(fd) ==
  LET c == peer[fd]
  IN  /\ peer' = [peer EXCEPT ![fd] = Null]
      /\ shut' = [shut EXCEPT ![c] = TRUE]
      /\ resetC' = [resetC EXCEPT ![c] = req[c]]
      /\ UNCHANGED <<clientVars, limit, backlog, req, rep, resetS, killed>>

-----------------------------------------------------------------------------
\* client_task

Connect(c) == /\ phase[c] = "new"
              /\ phase' = [phase EXCEPT ![c] = "send"]
              /\ backlog' = Append(backlog, c)
              /\ UNCHANGED <<threads, limit, sends, peer, req, rep, shut, resetC,
                             resetS, killed>>

\* error() and SIGPIPE end the process.  The end of a client with an unread
\* reply resets its connection.
Exit(c) ==
  LET ended == IF threads THEN Clients ELSE {c}
  IN  /\ phase' = [d \in Clients |-> IF d \in ended THEN "gone" ELSE phase[d]]
      /\ resetS' = [d \in Clients |-> resetS[d] \/ (d \in ended /\ rep[d])]
      /\ UNCHANGED <<threads, limit, sends, backlog, peer, req, rep, shut, resetC,
                     killed>>

\* The RST for a request sent to a closed end may come at any time later.
SendRequest(c) ==
  /\ phase[c] = "send" /\ sends[c] < MaxSends
  /\ IF resetC[c] THEN Exit(c)
     ELSE /\ phase' = [phase EXCEPT ![c] = "recv"]
          /\ sends' = [sends EXCEPT ![c] = @ + 1]
          /\ req' = [req EXCEPT ![c] = TRUE]
          /\ UNCHANGED <<threads, limit, backlog, peer, rep, shut, resetC, resetS,
                         killed>>

ResetArrives(c) ==
  /\ shut[c] /\ req[c] /\ ~resetC[c]
  /\ resetC' = [resetC EXCEPT ![c] = TRUE]
  /\ UNCHANGED <<clientVars, limit, backlog, peer, req, rep, shut, resetS, killed>>

\* recv() that returns 0 counts as a reply.
ReceiveReply(c) ==
  /\ phase[c] = "recv"
  /\ IF rep[c] \/ (shut[c] /\ ~resetC[c])
       THEN /\ phase' = [phase EXCEPT ![c] = "send"]
            /\ rep' = [rep EXCEPT ![c] = FALSE]
            /\ UNCHANGED <<threads, limit, sends, backlog, peer, req, shut, resetC, resetS, killed>>
       ELSE resetC[c] /\ Exit(c)

TimeUp(c) == /\ phase[c] = "send"
             /\ phase' = [phase EXCEPT ![c] = "gone"]
             /\ UNCHANGED <<threads, limit, sends, tcp, killed>>

client_task(c) == Connect(c) \/ SendRequest(c) \/ ResetArrives(c) \/ ReceiveReply(c)
                    \/ TimeUp(c)

NetInit ==
  /\ threads \in BOOLEAN /\ limit \in 1..MaxFd
  /\ phase = [c \in Clients |-> "new"] /\ sends = [c \in Clients |-> 0]
  /\ backlog = <<>> /\ peer = [fd \in Fds |-> Null]
  /\ req = [c \in Clients |-> FALSE] /\ rep = [c \in Clients |-> FALSE]
  /\ shut = [c \in Clients |-> FALSE] /\ killed = FALSE
  /\ resetC = [c \in Clients |-> FALSE] /\ resetS = [c \in Clients |-> FALSE]

\* Beside the types: every connection waits or has one descriptor.
NetTypeOK ==
  /\ threads \in BOOLEAN /\ killed \in BOOLEAN /\ limit \in 1..MaxFd
  /\ phase \in [Clients -> {"new", "send", "recv", "gone"}]
  /\ sends \in [Clients -> 0..MaxSends]
  /\ backlog \in Seq(Clients) /\ peer \in [Fds -> Clients \cup {Null}]
  /\ req \in [Clients -> BOOLEAN] /\ rep \in [Clients -> BOOLEAN]
  /\ shut \in [Clients -> BOOLEAN]
  /\ resetC \in [Clients -> BOOLEAN] /\ resetS \in [Clients -> BOOLEAN]
  /\ \A c \in Clients : Cardinality({fd \in Fds : peer[fd] = c})
                          + Cardinality({i \in DOMAIN backlog : backlog[i] = c}) <= 1
=============================================================================
